---- MODULE Spec2Model ----
(***************************************************************************)
(* A model of the network fabric simulator: the fabric (routers, links,    *)
(* counters), the routing engine (single-path and equal-cost multi-path    *)
(* tables computed by Dijkstra from the two ingress anchors) and the       *)
(* hop-by-hop packet processor.                                            *)
(*                                                                         *)
(* A RouterId "Rx<x>y<y>" is modelled as the pair <<x, y>>: the strings    *)
(* have a fixed width, so their lexicographic order is the order of the    *)
(* pairs.  The empty id "" of RouteEntry::default is <<-1, -1>>.           *)
(***************************************************************************)
EXTENDS Integers, Sequences, FiniteSets, TLC

VARIABLES
    nodes,          \* Fabric.graph: the Router node weights, by node index
    edges,          \* Fabric.graph: the Link edge weights with their endpoints
    router_index,   \* Fabric.router_index: RouterId -> node index
    link_index,     \* Fabric.link_index: LinkId -> edge index
    ingress_a,      \* the anchor of tap A given to the routing engine
    ingress_b,      \* the anchor of tap B given to the routing engine
    tables,         \* HashMap<RouterId, RoutingTable> handed to process_packet
    mtables,        \* HashMap<RouterId, MultiPathTable> handed to process_packet_multi
    routed,         \* which routing computation produced the tables in use
    pc,             \* position of the forwarding call
    mode,           \* "single": process_packet, "multi": process_packet_multi
    ingress,        \* the call's `ingress` variable: the current router
    packet,         \* the call's `packet` variable
    destination,    \* the call's `destination` variable
    hop_count,      \* the call's `hop_count` variable
    call,           \* the arguments and the trace of the current call
    total,          \* totals over all calls so far
    tasks,          \* concurrent simulate_link calls on one link, by task
    picks,          \* the arguments and results of two select_egress_link calls
    config,         \* the SimulatorConfig handed to tun::start
    tun             \* tun::start: its position, its inputs and what it wrote

fabricVars == <<nodes, edges, router_index, link_index>>
routeVars  == <<ingress_a, ingress_b, tables, mtables, routed>>
callVars   == <<pc, mode, ingress, packet, destination, hop_count, call, total>>
envVars    == <<tasks, picks, config, tun>>
vars == <<nodes, edges, router_index, link_index, ingress_a, ingress_b, tables,
          mtables, routed, pc, mode, ingress, packet, destination, hop_count,
          call, total, tasks, picks, config, tun>>

(***************************************************************************)
(* Program constants.                                                      *)
(***************************************************************************)
\* u32::MAX, the "unreachable" cost.  The checker's integers end at 2^31 - 1,
\* which stands for it: the costs of the model stay far below both.
U32_MAX == 2147483647
HopLimit == 100
IcmpTtl == 64

(***************************************************************************)
(* Bounds of the model.                                                    *)
(***************************************************************************)
MaxLinks == 2
MaxCalls == 2
MaxEarlier == 4

(***************************************************************************)
(* Router ids.                                                             *)
(***************************************************************************)
Rx0y0 == <<0, 0>>
Rx0y1 == <<0, 1>>
Rx0y2 == <<0, 2>>
EmptyId == <<-1, -1>>
RouterSeq == <<Rx0y0, Rx0y1, Rx0y2>>

\* RouterId::validate: ^Rx[0-5]y[0-5]$
validate(id) == id[1] \in 0..5 /\ id[2] \in 0..5

\* String order of two router ids (r1.0 <= r2.0).
IdLe(r1, r2) == r1[1] < r2[1] \/ (r1[1] = r2[1] /\ r2[2] >= r1[2])

\* LinkId::new: the pair in canonical (lexicographic) order.
LinkIdNew(r1, r2) == IF IdLe(r1, r2) THEN [a |-> r1, b |-> r2] ELSE [a |-> r2, b |-> r1]

\* RouterStats::default
StatsDefault == [packets_received |-> 0, packets_forwarded |-> 0,
                 packets_lost |-> 0, icmp_generated |-> 0]

\* Router::new (the addresses are derived from the id and never change).
RouterNew(id) == [id |-> id, stats |-> StatsDefault]

(***************************************************************************)
(* Fabric.  A fabric value is a record of the four fields.                 *)
(***************************************************************************)
FabricNew == [nodes |-> <<>>, edges |-> <<>>, router_index |-> <<>>, link_index |-> <<>>]

\* Fabric::add_router: a new graph node, and router_index[id] := its index.
add_router(F, id) ==
    [F EXCEPT !.nodes = Append(F.nodes, RouterNew(id)),
              !.router_index = (id :> (Len(F.nodes) + 1)) @@ F.router_index]

\* Fabric::add_link: a new graph edge from a's node to b's node, and
\* link_index[LinkId::new(a, b)] := its index.
add_link(F, a, b, cfg) ==
    LET id == LinkIdNew(a, b)
        link == [src |-> F.router_index[a], dst |-> F.router_index[b],
                 id |-> id, cfg |-> cfg, counter |-> 0]
    IN [F EXCEPT !.edges = Append(F.edges, link),
                 !.link_index = (id :> (Len(F.edges) + 1)) @@ F.link_index]

RECURSIVE AddRouters(_, _)
AddRouters(F, ids) ==
    IF ids = <<>> THEN F ELSE AddRouters(add_router(F, Head(ids)), Tail(ids))

RECURSIVE AddLinks(_, _)
AddLinks(F, ls) ==
    IF ls = <<>> THEN F
    ELSE AddLinks(add_link(F, Head(ls).a, Head(ls).b, Head(ls).cfg), Tail(ls))

\* The construction of run(): the routers first, then the links.
BuildFabric(ids, ls) == AddLinks(AddRouters(FabricNew, ids), ls)

\* The indices n, n-1, ..., 1.
RECURSIVE Down(_)
Down(n) == IF n = 0 THEN <<>> ELSE <<n>> \o Down(n - 1)

\* graph.edges(node) of an undirected petgraph Graph: the edges added with
\* `node` as first endpoint, newest first, then those added with `node` as
\* second endpoint, newest first (a self-loop is listed once).
EdgesOf(E, n) ==
    SelectSeq(Down(Len(E)), LAMBDA i : E[i].src = n)
        \o SelectSeq(Down(Len(E)), LAMBDA i : E[i].dst = n /\ E[i].src # n)

\* EdgeRef::target() of an edge listed by graph.edges(n): the other endpoint.
Target(E, i, n) == IF E[i].src = n THEN E[i].dst ELSE E[i].src

\* Fabric::incident_links: the link of every edge of the router's node.
incident_links(E, idx, r) ==
    IF r \in DOMAIN idx THEN EdgesOf(E, idx[r]) ELSE <<>>

(***************************************************************************)
(* Routing engine.                                                         *)
(***************************************************************************)
\* The edge cost closure: a zero delay weighs 1.
WeightZeroMut(cfg) == cfg.delay_ms
Weight(cfg) == IF cfg.delay_ms = 0 THEN 1 ELSE cfg.delay_ms

\* dist.get(&idx).unwrap_or(&u32::MAX)
GetOrMax(dist, n) == IF n \in DOMAIN dist THEN dist[n] ELSE U32_MAX

\* petgraph::algo::dijkstra: one node's edges relaxed in iteration order.
RECURSIVE Relax(_, _, _, _, _)
Relax(E, scores, visited, n, es) ==
    IF es = <<>> THEN scores
    ELSE LET next == Target(E, Head(es), n)
             next_score == scores[n] + Weight(E[Head(es)].cfg)
         IN IF next \in visited THEN Relax(E, scores, visited, n, Tail(es))
            ELSE IF next \in DOMAIN scores /\ scores[next] <= next_score
                 THEN Relax(E, scores, visited, n, Tail(es))
                 ELSE Relax(E, (next :> next_score) @@ scores, visited, n, Tail(es))

\* petgraph::algo::dijkstra: pop the unvisited node of least score, relax its
\* edges, mark it visited; the result maps every reached node to its distance.
RECURSIVE DijkstraLoop(_, _, _)
DijkstraLoop(E, scores, visited) ==
    LET open == DOMAIN scores \ visited
    IN IF open = {} THEN scores
       ELSE LET n == CHOOSE m \in open : \A k \in open : scores[m] <= scores[k]
            IN DijkstraLoop(E, Relax(E, scores, visited, n, EdgesOf(E, n)),
                            visited \cup {n})

\* distances_from(fabric, src)
distances_from(F, src) == DijkstraLoop(F.edges, (F.router_index[src] :> 0), {})

\* The next-hop choice of compute_routing for one router and one anchor.
NextHopLastMut(F, dist, r, anchor) ==
    LET n == F.router_index[r]
        total_cost == GetOrMax(dist, n)
        ok == SelectSeq(EdgesOf(F.edges, n), LAMBDA i :
                 LET nd == GetOrMax(dist, Target(F.edges, i, n))
                 IN nd # U32_MAX /\ total_cost # U32_MAX
                    /\ nd + Weight(F.edges[i].cfg) = total_cost)
    IN IF r = anchor THEN r
       ELSE IF ok = <<>> THEN r
       ELSE F.nodes[Target(F.edges, ok[Len(ok)], n)].id

NextHopAnyNeighbourMut(F, dist, r, anchor) ==
    LET n == F.router_index[r]
        any == EdgesOf(F.edges, n)
    IN IF r = anchor THEN r
       ELSE IF any = <<>> THEN r
       ELSE F.nodes[Target(F.edges, Head(any), n)].id

NextHopNoneMut(F, dist, r, anchor) ==
    LET n == F.router_index[r]
        total_cost == GetOrMax(dist, n)
        ok == SelectSeq(EdgesOf(F.edges, n), LAMBDA i :
                 LET nd == GetOrMax(dist, Target(F.edges, i, n))
                 IN nd # U32_MAX /\ total_cost # U32_MAX
                    /\ nd + Weight(F.edges[i].cfg) = total_cost)
    IN IF r = anchor THEN r
       ELSE IF ok = <<>> THEN EmptyId
       ELSE F.nodes[Target(F.edges, Head(ok), n)].id

next_hop_of(F, dist, r, anchor) ==
    LET n == F.router_index[r]
        total_cost == GetOrMax(dist, n)
        ok == SelectSeq(EdgesOf(F.edges, n), LAMBDA i :
                 LET nd == GetOrMax(dist, Target(F.edges, i, n))
                 IN nd # U32_MAX /\ total_cost # U32_MAX
                    /\ nd + Weight(F.edges[i].cfg) = total_cost)
    IN IF r = anchor THEN r
       ELSE IF ok = <<>> THEN r
       ELSE F.nodes[Target(F.edges, Head(ok), n)].id

\* compute_routing
compute_routing(F, ia, ib) ==
    LET dist_a == distances_from(F, ia)
        dist_b == distances_from(F, ib)
    IN [r \in DOMAIN F.router_index |->
          [tun_a |-> [next_hop |-> next_hop_of(F, dist_a, r, ia),
                      total_cost |-> GetOrMax(dist_a, F.router_index[r])],
           tun_b |-> [next_hop |-> next_hop_of(F, dist_b, r, ib),
                      total_cost |-> GetOrMax(dist_b, F.router_index[r])]]]

\* One entry list of compute_multi_path_routing: the loop over the edges of
\* the node, keeping the entries of least cost seen so far.
RECURSIVE MultiEntries(_, _, _, _, _, _)
MultiEntries(F, dist, n, es, min_cost, entries) ==
    IF es = <<>> THEN entries
    ELSE LET nb == Target(F.edges, Head(es), n)
             cost == dist[nb] + Weight(F.edges[Head(es)].cfg)
             e == [next_hop |-> F.nodes[nb].id, total_cost |-> cost]
         IN IF nb \notin DOMAIN dist \/ dist[nb] = U32_MAX
            THEN MultiEntries(F, dist, n, Tail(es), min_cost, entries)
            ELSE IF cost < min_cost
                 THEN MultiEntries(F, dist, n, Tail(es), cost, <<e>>)
                 ELSE IF cost = min_cost
                      THEN MultiEntries(F, dist, n, Tail(es), min_cost, Append(entries, e))
                      ELSE MultiEntries(F, dist, n, Tail(es), min_cost, entries)

\* compute_multi_path_routing: tun_a is built from the distances from
\* ingress B, tun_b from the distances from ingress A.
MultiSwappedMut(F, ia, ib) ==
    LET dist_a == distances_from(F, ia)
        dist_b == distances_from(F, ib)
    IN [r \in DOMAIN F.router_index |->
          LET n == F.router_index[r]
          IN [tun_a |-> MultiEntries(F, dist_a, n, EdgesOf(F.edges, n), U32_MAX, <<>>),
              tun_b |-> MultiEntries(F, dist_b, n, EdgesOf(F.edges, n), U32_MAX, <<>>)]]

compute_multi_path_routing(F, ia, ib) ==
    LET dist_a == distances_from(F, ia)
        dist_b == distances_from(F, ib)
    IN [r \in DOMAIN F.router_index |->
          LET n == F.router_index[r]
          IN [tun_a |-> MultiEntries(F, dist_b, n, EdgesOf(F.edges, n), U32_MAX, <<>>),
              tun_b |-> MultiEntries(F, dist_a, n, EdgesOf(F.edges, n), U32_MAX, <<>>)]]

(***************************************************************************)
(* Packet codec and ICMP builder, on the fields the processor reads.  A    *)
(* frame is the byte buffer seen through its header fields: the IP         *)
(* version, the header length, the total length, the TTL / Hop Limit byte, *)
(* the protocol / Next Header byte, the two addresses, the first four      *)
(* transport bytes (the ports), the ICMP type, code and rest-of-header of  *)
(* a synthesized reply, and the buffer length.  An address is a pair       *)
(* <<family, host>>.                                                       *)
(***************************************************************************)
Unspecified4 == <<4, "0.0.0.0">>
Unspecified6 == <<6, "::">>
NoIcmp == <<>>

Frame(version, len, ttl, protocol, src, dst, sport, dport, icmp) ==
    [version |-> version, len |-> len, ttl |-> ttl, protocol |-> protocol,
     src |-> src, dst |-> dst, sport |-> sport, dport |-> dport, icmp |-> icmp]

\* Length of the fixed IP header of a frame.
HeaderLen(version) == IF version = 4 THEN 20 ELSE 40

\* packet::parse on a frame without IPv4 options or IPv6 extension headers.
parse(data) ==
    IF data.len < 20 THEN [ok |-> FALSE]
    ELSE IF data.version = 4
         THEN [ok |-> TRUE, packet |->
               [src_ip |-> data.src, dst_ip |-> data.dst,
                src_port |-> IF data.protocol \in {6, 17} /\ data.len >= 24
                             THEN data.sport ELSE 0,
                dst_port |-> IF data.protocol \in {6, 17} /\ data.len >= 24
                             THEN data.dport ELSE 0,
                protocol |-> data.protocol, ttl |-> data.ttl, raw |-> data]]
    ELSE IF data.version = 6
         THEN IF data.len < 40 THEN [ok |-> FALSE]
              ELSE [ok |-> TRUE, packet |->
                    [src_ip |-> data.src, dst_ip |-> data.dst,
                     src_port |-> IF data.protocol \in {6, 17} /\ data.len >= 44
                                  THEN data.sport ELSE 0,
                     dst_port |-> IF data.protocol \in {6, 17} /\ data.len >= 44
                                  THEN data.dport ELSE 0,
                     protocol |-> data.protocol, ttl |-> data.ttl, raw |-> data]]
    ELSE [ok |-> FALSE]

\* is_ipv6
is_ipv6(p) == p.src_ip[1] = 6

SatSub1(b) == IF b = 0 THEN 0 ELSE b - 1

\* PacketMeta::decrement_ttl: the field, and the TTL / Hop Limit byte of raw
\* when the buffer holds it.
DecrementKeepMut(p) ==
    IF p.ttl = 0 THEN [ok |-> FALSE, packet |-> p] ELSE [ok |-> TRUE, packet |-> p]
decrement_ttl(p) ==
    IF p.ttl = 0 THEN [ok |-> FALSE, packet |-> p]
    ELSE [ok |-> TRUE,
          packet |-> [p EXCEPT !.ttl = p.ttl - 1,
                               !.raw.ttl = IF (is_ipv6(p) /\ p.raw.len > 7)
                                              \/ (~is_ipv6(p) /\ p.raw.len > 8)
                                           THEN SatSub1(p.raw.ttl)
                                           ELSE p.raw.ttl]]

Min(a, b) == IF a <= b THEN a ELSE b

\* icmp::generate_icmp_error: source = destination of the original,
\* destination = source of the original, TTL 64, protocol 1, the 8-byte ICMP
\* header and up to 28 bytes of the original.
generate_icmp_error(original, error_type, code) ==
    Frame(4, 28 + Min(28, original.raw.len), IcmpTtl, 1,
          IF original.dst_ip[1] = 4 THEN original.dst_ip ELSE Unspecified4,
          IF original.src_ip[1] = 4 THEN original.src_ip ELSE Unspecified4,
          0, 0, <<error_type, code, 0>>)

\* icmp::generate_fragmentation_needed: type 3 code 4 with the next-hop MTU
\* in a 6-byte ICMP header.
generate_fragmentation_needed(original, mtu) ==
    Frame(4, 26 + Min(28, original.raw.len), IcmpTtl, 1,
          IF original.dst_ip[1] = 4 THEN original.dst_ip ELSE Unspecified4,
          IF original.src_ip[1] = 4 THEN original.src_ip ELSE Unspecified4,
          0, 0, <<3, 4, mtu % 65536>>)

\* icmp::generate_icmpv6_error: Hop Limit 64, Next Header 58, the 4-byte
\* ICMPv6 header (8 bytes for type 3) and the original up to 1280 bytes.
generate_icmpv6_error(original, error_type, code) ==
    LET hdr == IF error_type = 3 THEN 48 ELSE 44
    IN Frame(6, hdr + Min(1280 - hdr, original.raw.len), IcmpTtl, 58,
             IF original.dst_ip[1] = 6 THEN original.dst_ip ELSE Unspecified6,
             IF original.src_ip[1] = 6 THEN original.src_ip ELSE Unspecified6,
             0, 0, <<error_type, code, 0>>)

\* opposite_destination
opposite_destination(dest) == IF dest = "TunA" THEN "TunB" ELSE "TunA"

(***************************************************************************)
(* Link simulator and forwarding selector.                                 *)
(***************************************************************************)
\* LinkConfig; the optional mtu is <<>> (None) or <<m>> (Some(m)).
LinkConfig(mtu, delay_ms, loss_percent, load_balance) ==
    [mtu |-> mtu, delay_ms |-> delay_ms, jitter_ms |-> 0,
     loss_percent |-> loss_percent, load_balance |-> load_balance]

\* The values the loss draw `gen_range(0.0..100.0) < loss_percent` can take.
LossDraws(cfg) ==
    IF cfg.loss_percent <= 0 THEN {FALSE}
    ELSE IF cfg.loss_percent >= 100 THEN {TRUE} ELSE BOOLEAN

\* simulate_link's result for a buffer of `len` bytes and a loss draw.
SimulateAtLeastMut(link, len, lost) ==
    IF link.cfg.mtu # <<>> /\ len >= link.cfg.mtu[1]
    THEN [err |-> "MtuExceeded", mtu |-> link.cfg.mtu[1]]
    ELSE IF lost THEN [err |-> "PacketLost"] ELSE [err |-> "Ok"]
simulate_link(link, len, lost) ==
    IF link.cfg.mtu # <<>> /\ len > link.cfg.mtu[1]
    THEN [err |-> "MtuExceeded", mtu |-> link.cfg.mtu[1]]
    ELSE IF lost THEN [err |-> "PacketLost"] ELSE [err |-> "Ok"]

\* The column of a table for a destination.
Column(t, dest) == IF dest = "TunA" THEN t.tun_a ELSE t.tun_b

\* select_egress_link over the edge indices `links`; h is the value of the
\* hash of the 5-tuple and the counters.  The result is None, a link, or
\* the out-of-bounds panic of candidates[0] on an empty list.
select_egress_link(E, router_id, links, T, dest, h) ==
    IF router_id \notin DOMAIN T THEN [kind |-> "None"]
    ELSE LET next_hop == Column(T[router_id], dest).next_hop
             direct == SelectSeq(links, LAMBDA i :
                          (E[i].id.a = router_id /\ E[i].id.b = next_hop)
                          \/ (E[i].id.b = router_id /\ E[i].id.a = next_hop))
             candidates == IF direct = <<>> THEN links ELSE direct
             lb_links == SelectSeq(candidates, LAMBDA i : E[i].cfg.load_balance)
         IN IF lb_links # <<>>
            THEN [kind |-> "Some", link |-> lb_links[(h % Len(lb_links)) + 1]]
            ELSE IF candidates = <<>> THEN [kind |-> "Panic"]
                 ELSE [kind |-> "Some", link |-> candidates[1]]

\* The link choice of process_packet_multi for the entry list `entries`.
select_multi(E, links, entries, h) ==
    LET hit == SelectSeq(links, LAMBDA i :
                  \E k \in 1..Len(entries) :
                      entries[k].next_hop = E[i].id.a \/ entries[k].next_hop = E[i].id.b)
        candidate_links == IF hit = <<>> THEN links ELSE hit
        lb_links == SelectSeq(candidate_links, LAMBDA i : E[i].cfg.load_balance)
    IN IF lb_links # <<>>
       THEN [kind |-> "Some", link |-> lb_links[(h % Len(lb_links)) + 1]]
       ELSE IF candidate_links = <<>> THEN [kind |-> "Panic"]
            ELSE [kind |-> "Some", link |-> candidate_links[1]]

\* The router at the far end of a link, by the link's id.
OtherEnd(link, r) == IF link.id.a = r THEN link.id.b ELSE link.id.a

\* router.increment_*() on the node of router r, when the fabric has it.
IncrementForwardedMut(N, r, field) ==
    IF r \in DOMAIN router_index
    THEN [N EXCEPT ![router_index[r]].stats["packets_forwarded"] = @ + 1]
    ELSE N
IncrementLostTwiceMut(N, r, field) ==
    IF r \in DOMAIN router_index
    THEN [N EXCEPT ![router_index[r]].stats[field] =
                      IF field = "packets_lost" THEN @ + 2 ELSE @ + 1]
    ELSE N
Increment(N, r, field) ==
    IF r \in DOMAIN router_index
    THEN [N EXCEPT ![router_index[r]].stats[field] = @ + 1]
    ELSE N

(***************************************************************************)
(* Inputs: fabrics, tables given by the caller, packets.                   *)
(***************************************************************************)
Delays == {0, 2}
Plain(d) == LinkConfig(<<>>, d, 0, FALSE)
L(a, b, cfg) == [a |-> a, b |-> b, cfg |-> cfg]

\* Every sequence of at most MaxLinks add_link calls between the first n
\* routers, each link with a delay of Delays and no other impairment.
LinkChoices(n) ==
    {L(RouterSeq[i], RouterSeq[j], Plain(d)) : i \in 1..n, j \in 1..n, d \in Delays}
LinkSeqs(n) == UNION {[1..k -> LinkChoices(n)] : k \in 0..MaxLinks}

\* The fabrics of the forwarding runs: the two-router line of the end-to-end
\* test, the same with an MTU, with loss, with two load-balanced parallel
\* links of which the second drops every packet, the triangle of the
\* multipath test, a line of three routers, a fabric with an isolated
\* router, and a single router.
Scenarios ==
    {[ids |-> <<Rx0y0, Rx0y1>>, ls |-> <<L(Rx0y0, Rx0y1, Plain(0))>>],
     [ids |-> <<Rx0y0, Rx0y1>>,
      ls |-> <<L(Rx0y0, Rx0y1, LinkConfig(<<100>>, 0, 0, FALSE))>>],
     [ids |-> <<Rx0y0, Rx0y1>>,
      ls |-> <<L(Rx0y0, Rx0y1, LinkConfig(<<>>, 0, 50, FALSE))>>],
     [ids |-> <<Rx0y0, Rx0y1>>,
      ls |-> <<L(Rx0y0, Rx0y1, LinkConfig(<<>>, 0, 0, TRUE)),
               L(Rx0y1, Rx0y0, LinkConfig(<<>>, 0, 100, TRUE))>>],
     [ids |-> <<Rx0y0, Rx0y1, Rx0y2>>,
      ls |-> <<L(Rx0y0, Rx0y1, Plain(5)), L(Rx0y0, Rx0y2, Plain(10)),
               L(Rx0y1, Rx0y2, Plain(5))>>],
     [ids |-> <<Rx0y0, Rx0y1, Rx0y2>>,
      ls |-> <<L(Rx0y0, Rx0y1, Plain(0)), L(Rx0y1, Rx0y2, Plain(0))>>],
     [ids |-> <<Rx0y0, Rx0y1, Rx0y2>>, ls |-> <<L(Rx0y1, Rx0y0, Plain(0))>>],
     [ids |-> <<Rx0y0>>, ls |-> <<>>]}

\* Tables built by the caller instead of the routing engine (as the ICMP
\* routing test does): the empty map, a cycle through the routers in the
\* order they were added, the cycle without the entry of the last router,
\* and RoutingTable::default (the empty next hop) at every router.
Entry(h) == [next_hop |-> h, total_cost |-> 0]
Succ(r) == nodes[(router_index[r] % Len(nodes)) + 1].id
LastRouter == nodes[Len(nodes)].id
EmptyTables == <<>>
CyclicTables ==
    [r \in DOMAIN router_index |->
        [tun_a |-> Entry(Succ(r)), tun_b |-> Entry(Succ(r))]]
PartialTables ==
    [r \in DOMAIN router_index \ {LastRouter} |-> CyclicTables[r]]
DefaultTables ==
    [r \in DOMAIN router_index |-> [tun_a |-> Entry(EmptyId), tun_b |-> Entry(EmptyId)]]
\* The caller's tables are tried on the fabrics of one or two routers whose
\* links have no impairment.
Unimpaired == Len(nodes) <= 2 /\ \A i \in 1..Len(edges) : edges[i].cfg = Plain(0)
GivenTables ==
    IF Unimpaired THEN {EmptyTables, CyclicTables, PartialTables, DefaultTables} ELSE {}

\* The same for the multipath tables; MultiPathTable::default has two empty
\* entry lists.
CyclicMultiTables ==
    [r \in DOMAIN router_index |->
        [tun_a |-> <<Entry(Succ(r))>>, tun_b |-> <<Entry(Succ(r))>>]]
PartialMultiTables ==
    [r \in DOMAIN router_index \ {LastRouter} |-> CyclicMultiTables[r]]
DefaultMultiTables ==
    [r \in DOMAIN router_index |-> [tun_a |-> <<>>, tun_b |-> <<>>]]
GivenMultiTables ==
    IF Unimpaired
    THEN {EmptyTables, CyclicMultiTables, PartialMultiTables, DefaultMultiTables}
    ELSE {}

Src4 == <<4, "10.0.0.1">>
Dst4 == <<4, "10.0.1.1">>
Src6 == <<6, "2001:db8::1">>
Dst6 == <<6, "2001:db8::2">>
Ttls(version) == IF version = 4 THEN {0, 1, 2, 64} ELSE {1, 64}
Lens(version) == IF version = 4 THEN {20, 100, 101} ELSE {40, 100, 101}

\* The packets handed to a forwarding call: parsed TCP frames.
Packet(v, len, t) ==
    parse(Frame(v, len, t, 6, IF v = 4 THEN Src4 ELSE Src6,
                IF v = 4 THEN Dst4 ELSE Dst6, 1234, 80, NoIcmp)).packet
Packets ==
    UNION {{Packet(v, len, t) : len \in Lens(v), t \in Ttls(v)} : v \in {4, 6}}
    \cup {Packet(6, 100, 2)}
FewPackets == {Packet(4, 20, 64), Packet(4, 20, 1), Packet(4, 101, 64), Packet(6, 40, 64)}
HashValues == {0, 1}
Rx5y5 == <<5, 5>>

NoPacket == [src_ip |-> Unspecified4, dst_ip |-> Unspecified4, src_port |-> 0,
             dst_port |-> 0, protocol |-> 0, ttl |-> 0,
             raw |-> Frame(4, 0, 0, 0, Unspecified4, Unspecified4, 0, 0, NoIcmp)]
NoCall == [start |-> EmptyId, dest0 |-> "TunA", pkt0 |-> NoPacket, iters |-> 0,
           links |-> 0, icmps |-> 0, unknown |-> FALSE, last |-> "none"]

FabricOf == [nodes |-> nodes, edges |-> edges, router_index |-> router_index,
             link_index |-> link_index]

InitCore(F) ==
    /\ nodes = F.nodes /\ edges = F.edges
    /\ router_index = F.router_index /\ link_index = F.link_index
    /\ ingress_a = EmptyId /\ ingress_b = EmptyId
    /\ tables = <<>> /\ mtables = <<>> /\ routed = "none"
    /\ pc = "idle" /\ mode = "single" /\ ingress = EmptyId /\ packet = NoPacket
    /\ destination = "TunA" /\ hop_count = 0 /\ call = NoCall
    /\ total = [iterations |-> 0, calls |-> 0, unknown |-> FALSE]

InitWith(F) ==
    /\ InitCore(F)
    /\ tasks = <<>> /\ picks = <<>> /\ config = <<>> /\ tun = <<>>

Init == \E s \in Scenarios : InitWith(BuildFabric(s.ids, s.ls))

\* The fabrics of the routing runs: every fabric of at most MaxLinks links
\* over the first n routers, and the fabrics of the forwarding runs.
InitRoute ==
    \/ \E n \in 1..Len(RouterSeq) : \E ls \in LinkSeqs(n) :
           InitWith(BuildFabric(SubSeq(RouterSeq, 1, n), ls))
    \/ Init

(***************************************************************************)
(* Routing computations of run().                                          *)
(***************************************************************************)
ComputeRouting(ia, ib) ==
    /\ routed = "none" /\ pc = "idle"
    /\ ia \in DOMAIN router_index /\ ib \in DOMAIN router_index
    /\ ingress_a' = ia /\ ingress_b' = ib
    /\ tables' = compute_routing(FabricOf, ia, ib)
    /\ routed' = "compute_routing"
    /\ UNCHANGED <<fabricVars, mtables, callVars, envVars>>

ComputeMultiPathRouting(ia, ib) ==
    /\ routed = "none" /\ pc = "idle"
    /\ ia \in DOMAIN router_index /\ ib \in DOMAIN router_index
    /\ ingress_a' = ia /\ ingress_b' = ib
    /\ mtables' = compute_multi_path_routing(FabricOf, ia, ib)
    /\ routed' = "compute_multi_path_routing"
    /\ UNCHANGED <<fabricVars, tables, callVars, envVars>>

\* A caller that builds the table map itself (as the ICMP routing test does).
UseTables(t) ==
    /\ routed = "none" /\ pc = "idle"
    /\ tables' = t /\ routed' = "given"
    /\ UNCHANGED <<fabricVars, ingress_a, ingress_b, mtables, callVars, envVars>>

UseMultiTables(t) ==
    /\ routed = "none" /\ pc = "idle"
    /\ mtables' = t /\ routed' = "given_multi"
    /\ UNCHANGED <<fabricVars, ingress_a, ingress_b, tables, callVars, envVars>>

NextRoute ==
    \/ \E ia \in DOMAIN router_index, ib \in DOMAIN router_index : ComputeRouting(ia, ib)
    \/ \E ia \in DOMAIN router_index, ib \in DOMAIN router_index :
           ComputeMultiPathRouting(ia, ib)

SpecRoute == InitRoute /\ [][NextRoute]_vars

(***************************************************************************)
(* Packet processor.  A forwarding call is started by StartCall; each      *)
(* outcome of one iteration of the forwarding loop of process_packet (SP_) *)
(* and of process_packet_multi (MP_) is one action.  The record `call`     *)
(* keeps the arguments of the call and counts what its iterations did.     *)
(***************************************************************************)
Destinations == {"TunA", "TunB"}

\* The calls of a run.  The first call injects a packet at a router of the
\* fabric towards either tap: any packet of Packets with the tables of
\* compute_routing, a packet of FewPackets with the other tables (whose
\* calls run up to the hop limit); or it injects a packet at a router the
\* fabric does not have.  A later call injects the same packet again at
\* the same router (as run() does with its dummy packet), towards either
\* tap.
Injections ==
    IF total.calls = 0
    THEN {[start |-> r, pkt |-> p, dest |-> d]
             : r \in DOMAIN router_index,
               p \in IF routed = "compute_routing" THEN Packets ELSE FewPackets,
               d \in Destinations}
         \cup {[start |-> Rx5y5, pkt |-> Packet(4, 20, 64), dest |-> "TunB"]}
    ELSE {[start |-> call.start, pkt |-> call.pkt0, dest |-> d] : d \in Destinations}

\* A call can be made: the tables are set up, no call is running, and the
\* run has calls left; a further call is made when the calls before it ran
\* at most MaxEarlier iterations.
CanCall ==
    /\ pc \in {"idle", "returned"} /\ routed # "none"
    /\ total.calls < MaxCalls /\ total.iterations <= MaxEarlier

\* The entry of process_packet or process_packet_multi with its arguments.
Begin(r, pkt, dest) ==
    /\ mode' = IF routed \in {"compute_routing", "given"} THEN "single" ELSE "multi"
    /\ ingress' = r /\ packet' = pkt /\ destination' = dest /\ hop_count' = 0
    /\ pc' = "running"
    /\ call' = [NoCall EXCEPT !.start = r, !.dest0 = dest, !.pkt0 = pkt]
    /\ total' = [total EXCEPT !.calls = @ + 1]

StartCall(r, pkt, dest) ==
    /\ Begin(r, pkt, dest)
    /\ UNCHANGED <<fabricVars, routeVars, envVars>>

\* The loop head: hop_count += 1 and the hop guard let the iteration run.
InLoop(m) == pc = "running" /\ mode = m /\ hop_count + 1 <= HopLimit

\* The node weights after router.increment_received() at the current router.
ReceivedNotMut == nodes
Received == Increment(nodes, ingress, "packets_received")

\* The edge weights after link.counter.fetch_add(1) in simulate_link.
CountedStaleMut(i) == [edges EXCEPT ![i].counter = 1]
CountedSlowerMut(i) == [edges EXCEPT ![i].counter = @ + 1, ![i].cfg.delay_ms = @ + 1]
Counted(i) == [edges EXCEPT ![i].counter = @ + 1]

\* The ICMP error frames the processor asks for.
TimeExceeded(p) ==
    IF is_ipv6(p) THEN generate_icmpv6_error(p, 3, 0) ELSE generate_icmp_error(p, 11, 0)
Unreachable(p) ==
    IF is_ipv6(p) THEN generate_icmpv6_error(p, 3, 0) ELSE generate_icmp_error(p, 3, 0)
TooBig(p, mtu) ==
    IF is_ipv6(p) THEN generate_icmpv6_error(p, 2, 0)
    ELSE generate_fragmentation_needed(p, mtu)

IcmpEvents == {"ttl", "noroute", "mtu"}

\* The state after an iteration with outcome ev: the node and edge weights,
\* the current router, the packet, the destination and where the call is.
Iteration(ev, N, E, r, p, dest, next_pc) ==
    /\ nodes' = N /\ edges' = E /\ ingress' = r /\ packet' = p
    /\ destination' = dest /\ pc' = next_pc
    /\ hop_count' = hop_count + 1
    /\ call' = [call EXCEPT
                  !.iters = @ + 1, !.last = ev,
                  !.unknown = @ \/ ingress \notin DOMAIN router_index,
                  !.links = IF ev = "forwarded" THEN @ + 1 ELSE @,
                  !.icmps = IF ev \in IcmpEvents THEN @ + 1 ELSE @]
    /\ total' = [total EXCEPT
                   !.iterations = @ + 1,
                   !.unknown = @ \/ ingress \notin DOMAIN router_index]
    /\ UNCHANGED <<router_index, link_index, routeVars, mode, envVars>>

\* An ICMP error is generated at the current router and takes the place of
\* the packet, heading the opposite way; p is the packet kept when the
\* frame does not parse.
Reply(ev, N, E, p, icmp_bytes) ==
    LET icmp_packet == parse(icmp_bytes)
        N2 == Increment(N, ingress, "icmp_generated")
    IN IF icmp_packet.ok
       THEN Iteration(ev, N2, E, ingress, icmp_packet.packet,
                      opposite_destination(destination), "running")
       ELSE Iteration(ev, N2, E, ingress, p, destination, "returned")

(***************************************************************************)
(* process_packet                                                          *)
(***************************************************************************)
SP_HopLimit ==
    /\ pc = "running" /\ mode = "single" /\ hop_count + 1 > HopLimit
    /\ hop_count' = hop_count + 1 /\ pc' = "returned"
    /\ call' = [call EXCEPT !.last = "hoplimit"]
    /\ UNCHANGED <<fabricVars, routeVars, mode, ingress, packet, destination, total, envVars>>

SP_TtlExpired ==
    /\ InLoop("single") /\ packet.ttl <= 1
    /\ Reply("ttl", Received, edges, packet, TimeExceeded(packet))

SP_NoTable ==
    /\ InLoop("single") /\ packet.ttl > 1
    /\ ingress \notin DOMAIN tables
    /\ Reply("noroute", Received, edges, packet, Unreachable(packet))

SP_ArrivedFirstMut ==
    /\ InLoop("single")
    /\ ingress \in DOMAIN tables
    /\ Column(tables[ingress], destination).next_hop = ingress
    /\ Iteration("arrived", Received, edges, ingress, packet, destination, "returned")
SP_Arrived ==
    /\ InLoop("single") /\ packet.ttl > 1
    /\ ingress \in DOMAIN tables
    /\ Column(tables[ingress], destination).next_hop = ingress
    /\ Iteration("arrived", Received, edges, ingress, packet, destination, "returned")

\* The iteration goes on to decrement the TTL and to select a link.
SP_Forwarding ==
    /\ InLoop("single") /\ packet.ttl > 1
    /\ ingress \in DOMAIN tables
    /\ Column(tables[ingress], destination).next_hop # ingress
SP_Egress(h) ==
    select_egress_link(edges, ingress, incident_links(edges, router_index, ingress),
                       tables, destination, h)

\* decrement_ttl fails or no link is selected: the loop is left; the index
\* candidates[0] of an empty list panics instead.
SP_Stop(h) ==
    LET d == decrement_ttl(packet)
        sel == SP_Egress(h)
        panic == d.ok /\ sel.kind = "Panic"
    IN /\ SP_Forwarding
       /\ ~(d.ok /\ sel.kind = "Some")
       /\ Iteration(IF panic THEN "panic" ELSE "nolink", Received, edges, ingress,
                    d.packet, destination, IF panic THEN "panicked" ELSE "returned")

SP_MtuExceeded(h) ==
    LET d == decrement_ttl(packet)
        sel == SP_Egress(h)
        sim == simulate_link(edges[sel.link], d.packet.raw.len, FALSE)
    IN /\ SP_Forwarding
       /\ d.ok /\ sel.kind = "Some"
       /\ sim.err = "MtuExceeded"
       /\ Reply("mtu", Received, Counted(sel.link), d.packet, TooBig(d.packet, sim.mtu))

SP_PacketLost(h, lost) ==
    LET d == decrement_ttl(packet)
        sel == SP_Egress(h)
    IN /\ SP_Forwarding
       /\ d.ok /\ sel.kind = "Some"
       /\ lost \in LossDraws(edges[sel.link].cfg)
       /\ simulate_link(edges[sel.link], d.packet.raw.len, lost).err = "PacketLost"
       /\ Iteration("lost", Increment(Received, ingress, "packets_lost"),
                    Counted(sel.link), ingress, d.packet, destination, "returned")

SP_Forwarded(h, lost) ==
    LET d == decrement_ttl(packet)
        sel == SP_Egress(h)
    IN /\ SP_Forwarding
       /\ d.ok /\ sel.kind = "Some"
       /\ lost \in LossDraws(edges[sel.link].cfg)
       /\ simulate_link(edges[sel.link], d.packet.raw.len, lost).err = "Ok"
       /\ Iteration("forwarded", Increment(Received, ingress, "packets_forwarded"),
                    Counted(sel.link), OtherEnd(edges[sel.link], ingress), d.packet,
                    destination, "running")

(***************************************************************************)
(* process_packet_multi                                                    *)
(***************************************************************************)
MP_HopLimit ==
    /\ pc = "running" /\ mode = "multi" /\ hop_count + 1 > HopLimit
    /\ hop_count' = hop_count + 1 /\ pc' = "returned"
    /\ call' = [call EXCEPT !.last = "hoplimit"]
    /\ UNCHANGED <<fabricVars, routeVars, mode, ingress, packet, destination, total, envVars>>

MP_TtlExpired ==
    /\ InLoop("multi") /\ packet.ttl <= 1
    /\ Reply("ttl", Received, edges, packet, TimeExceeded(packet))

\* The TTL is decremented before the table is looked up.
MP_NoTable ==
    LET d == decrement_ttl(packet)
    IN /\ InLoop("multi") /\ packet.ttl > 1
       /\ d.ok
       /\ ingress \notin DOMAIN mtables
       /\ Reply("noroute", Received, edges, d.packet, Unreachable(d.packet))

MP_Entries == Column(mtables[ingress], destination)

MP_Empty ==
    LET d == decrement_ttl(packet)
    IN /\ InLoop("multi") /\ packet.ttl > 1
       /\ d.ok
       /\ ingress \in DOMAIN mtables
       /\ MP_Entries = <<>>
       /\ Iteration("empty", Received, edges, ingress, d.packet, destination, "returned")

\* The iteration goes on to choose a link.
MP_Forwarding ==
    /\ InLoop("multi") /\ packet.ttl > 1
    /\ decrement_ttl(packet).ok
    /\ ingress \in DOMAIN mtables
    /\ MP_Entries # <<>>
MP_Egress(h) ==
    select_multi(edges, incident_links(edges, router_index, ingress), MP_Entries, h)

\* decrement_ttl fails: the loop is left; the index candidate_links[0] of an
\* empty list panics.
MP_Stop(h) ==
    LET d == decrement_ttl(packet)
    IN /\ InLoop("multi") /\ packet.ttl > 1
       /\ IF d.ok
          THEN /\ MP_Forwarding
               /\ MP_Egress(h).kind = "Panic"
               /\ Iteration("panic", Received, edges, ingress, d.packet, destination,
                            "panicked")
          ELSE Iteration("nolink", Received, edges, ingress, d.packet, destination,
                         "returned")

MP_MtuExceeded(h) ==
    LET d == decrement_ttl(packet)
        sel == MP_Egress(h)
        sim == simulate_link(edges[sel.link], d.packet.raw.len, FALSE)
    IN /\ MP_Forwarding
       /\ sel.kind = "Some"
       /\ sim.err = "MtuExceeded"
       /\ Reply("mtu", Received, Counted(sel.link), d.packet, TooBig(d.packet, sim.mtu))

MP_PacketLost(h, lost) ==
    LET d == decrement_ttl(packet)
        sel == MP_Egress(h)
    IN /\ MP_Forwarding
       /\ sel.kind = "Some"
       /\ lost \in LossDraws(edges[sel.link].cfg)
       /\ simulate_link(edges[sel.link], d.packet.raw.len, lost).err = "PacketLost"
       /\ Iteration("lost", Increment(Received, ingress, "packets_lost"),
                    Counted(sel.link), ingress, d.packet, destination, "returned")

MP_Forwarded(h, lost) ==
    LET d == decrement_ttl(packet)
        sel == MP_Egress(h)
    IN /\ MP_Forwarding
       /\ sel.kind = "Some"
       /\ lost \in LossDraws(edges[sel.link].cfg)
       /\ simulate_link(edges[sel.link], d.packet.raw.len, lost).err = "Ok"
       /\ Iteration("forwarded", Increment(Received, ingress, "packets_forwarded"),
                    Counted(sel.link), OtherEnd(edges[sel.link], ingress), d.packet,
                    destination, "running")

(***************************************************************************)
(* The forwarding runs: the tables are set up once, by one of the two      *)
(* routing computations from anchor A = the first router (the multipath    *)
(* one with anchor B = the last router), or by the caller, and forwarding  *)
(* calls follow one another.                                               *)
(***************************************************************************)
Next ==
    \/ \E ib \in DOMAIN router_index : ComputeRouting(nodes[1].id, ib)
    \/ ComputeMultiPathRouting(nodes[1].id, LastRouter)
    \/ routed = "none" /\ \E t \in GivenTables : UseTables(t)
    \/ routed = "none" /\ \E t \in GivenMultiTables : UseMultiTables(t)
    \/ CanCall /\ \E c \in Injections : StartCall(c.start, c.pkt, c.dest)
    \/ SP_HopLimit
    \/ SP_TtlExpired
    \/ SP_NoTable
    \/ SP_Arrived
    \/ \E h \in HashValues : SP_Stop(h)
    \/ \E h \in HashValues : SP_MtuExceeded(h)
    \/ \E h \in HashValues, lost \in BOOLEAN : SP_PacketLost(h, lost)
    \/ \E h \in HashValues, lost \in BOOLEAN : SP_Forwarded(h, lost)
    \/ MP_HopLimit
    \/ MP_TtlExpired
    \/ MP_NoTable
    \/ MP_Empty
    \/ \E h \in HashValues : MP_Stop(h)
    \/ \E h \in HashValues : MP_MtuExceeded(h)
    \/ \E h \in HashValues, lost \in BOOLEAN : MP_PacketLost(h, lost)
    \/ \E h \in HashValues, lost \in BOOLEAN : MP_Forwarded(h, lost)

Spec == Init /\ [][Next]_vars

(***************************************************************************)
(* Concurrent simulate_link calls.  MaxTasks tasks call simulate_link on   *)
(* the same link, each with a buffer of its own; a task's steps are the    *)
(* atomic fetch_add on the link's counter, the MTU check with the request  *)
(* of the generator's lock, the loss draw that ends with the release of    *)
(* the lock, and the wake-up from the delay.                               *)
(***************************************************************************)
MaxTasks == 3
TaskLens == {100, 101}
SharedLink == L(Rx0y0, Rx0y1, LinkConfig(<<100>>, 2, 50, FALSE))

InitLink ==
    /\ InitCore(BuildFabric(<<Rx0y0, Rx0y1>>, <<SharedLink>>))
    /\ \E lens \in [1..MaxTasks -> TaskLens] :
           tasks = [t \in 1..MaxTasks |->
                       [pc |-> "start", len |-> lens[t], result |-> "none",
                        holds |-> FALSE]]
    /\ picks = <<>> /\ config = <<>> /\ tun = <<>>

\* link.counter.fetch_add(1, Ordering::Relaxed)
SL_Count(t) ==
    /\ tasks[t].pc = "start"
    /\ edges' = Counted(1)
    /\ tasks' = [tasks EXCEPT ![t].pc = "counted"]
    /\ UNCHANGED <<nodes, router_index, link_index, routeVars, callVars,
                   picks, config, tun>>

\* The tasks that hold the guard of GLOBAL_RNG.
Holders == {t \in DOMAIN tasks : tasks[t].holds}

\* The end of the block of the draws: the guard `rng` is dropped.
DroppedAtReturnMut(task) == task
Dropped(task) == [task EXCEPT !.holds = FALSE]

\* simulate_link returns: every local is dropped.
Returned(task, result) ==
    [task EXCEPT !.pc = "done", !.result = result, !.holds = FALSE]

\* The MTU check and, for a buffer that fits, GLOBAL_RNG.lock(), which is
\* granted when no task holds the guard.
SL_Check(t) ==
    /\ tasks[t].pc = "counted"
    /\ LET r == simulate_link(edges[1], tasks[t].len, FALSE)
       IN IF r.err = "MtuExceeded"
          THEN tasks' = [tasks EXCEPT ![t] = Returned(@, r.err)]
          ELSE /\ Holders = {}
               /\ tasks' = [tasks EXCEPT ![t].pc = "locked", ![t].holds = TRUE]
    /\ UNCHANGED <<fabricVars, routeVars, callVars, picks, config, tun>>

\* The loss draw and the end of the block; a buffer that is lost returns,
\* one that survives sleeps for the link's delay.
SL_Draw(t, lost) ==
    /\ tasks[t].pc = "locked"
    /\ lost \in LossDraws(edges[1].cfg)
    /\ LET r == simulate_link(edges[1], tasks[t].len, lost)
       IN tasks' = IF r.err = "Ok" /\ edges[1].cfg.delay_ms > 0
                   THEN [tasks EXCEPT ![t] = Dropped([@ EXCEPT !.pc = "sleeping"])]
                   ELSE [tasks EXCEPT ![t] = Returned(Dropped(@), r.err)]
    /\ UNCHANGED <<fabricVars, routeVars, callVars, picks, config, tun>>

\* sleep(total_delay) is over: Ok(()).
SL_Wake(t) ==
    /\ tasks[t].pc = "sleeping"
    /\ tasks' = [tasks EXCEPT ![t] = Returned(@, "Ok")]
    /\ UNCHANGED <<fabricVars, routeVars, callVars, picks, config, tun>>

NextLink ==
    \/ \E t \in DOMAIN tasks : SL_Count(t)
    \/ \E t \in DOMAIN tasks : SL_Check(t)
    \/ \E t \in DOMAIN tasks, lost \in BOOLEAN : SL_Draw(t, lost)
    \/ \E t \in DOMAIN tasks : SL_Wake(t)

SpecLink == InitLink /\ [][NextLink]_vars

(***************************************************************************)
(* tun::start.  The configuration is a record with the fields of           *)
(* SimulatorConfig that start() reads.  A CIDR prefix string is modelled   *)
(* by the set of the addresses it contains: the empty string and a string  *)
(* that is not a CIDR (such as the default "10.") contain none.  An        *)
(* Option is <<>> (None) or <<v>> (Some(v)).                               *)
(***************************************************************************)
ip_in_prefix(ip, prefix) == ip \in prefix

Outside4 == <<4, "192.168.0.1">>
TunIngress(a, b) ==
    [tun_a_ingress |-> a, tun_b_ingress |-> b,
     tun_a_prefix |-> {Src4}, tun_b_prefix |-> {Dst4},
     tun_a_ipv6_prefix |-> {Src6}, tun_b_ipv6_prefix |-> {Dst6}]

\* (ingress_a.clone(), Destination::TunB) and (ingress_b.clone(), Destination::TunA)
ViaA == [ingress |-> ingress_a, destination |-> "TunB"]
ViaB == [ingress |-> ingress_b, destination |-> "TunA"]

\* src_ip.to_string().starts_with("10.")
StartsWith10(ip) == ip \in {Src4, Dst4}

\* The chain of the four prefixes of the packet-file branches.
ByPrefix(src_ip, fallback) ==
    IF ip_in_prefix(src_ip, config.tun_ingress.tun_a_prefix) THEN ViaA
    ELSE IF ip_in_prefix(src_ip, config.tun_ingress.tun_b_prefix) THEN ViaB
    ELSE IF ip_in_prefix(src_ip, config.tun_ingress.tun_a_ipv6_prefix) THEN ViaA
    ELSE IF ip_in_prefix(src_ip, config.tun_ingress.tun_b_ipv6_prefix) THEN ViaB
    ELSE fallback

\* The injection direction of a frame of a packet file; `inject` is
\* cfg.packet_inject_tun, or injects.get(i) for the i-th of packet_files.
file_ingress(inject, src_ip) ==
    IF inject # <<>>
    THEN IF inject[1] = "tun_a" THEN ViaA
         ELSE IF inject[1] = "tun_b" THEN ViaB
         ELSE ByPrefix(src_ip, IF StartsWith10(src_ip) THEN ViaA ELSE ViaB)
    ELSE ByPrefix(src_ip, ViaA)

\* The injection direction of a packet of generate_virtual_packet, IPv4 or
\* IPv6: the two prefixes tun_a_prefix and tun_b_prefix alone.
generator_ingress(src_ip) ==
    IF config.packet_inject_tun # <<>>
    THEN IF config.packet_inject_tun[1] = "tun_b" THEN ViaB ELSE ViaA
    ELSE IF ip_in_prefix(src_ip, config.tun_ingress.tun_a_prefix) THEN ViaA
         ELSE IF ip_in_prefix(src_ip, config.tun_ingress.tun_b_prefix) THEN ViaB
         ELSE ViaA

\* The PacketMeta that generate_virtual_packet builds from virtual_customer.
VirtualCustomer(src, dst, size) ==
    [src_ip |-> src, dst_ip |-> dst, protocol |-> <<>>, size |-> size, rate |-> <<1>>]
virtual_packet(vc) ==
    LET v == vc.src_ip[1]
        proto == IF vc.protocol = <<>> THEN 6 ELSE vc.protocol[1]
        len == HeaderLen(v) + (IF vc.size = <<>> THEN 0 ELSE vc.size[1])
    IN [src_ip |-> vc.src_ip, dst_ip |-> vc.dst_ip, src_port |-> 0, dst_port |-> 0,
        protocol |-> proto, ttl |-> 64,
        raw |-> Frame(v, len, 64, proto, vc.src_ip, vc.dst_ip, 0, 0, NoIcmp)]

\* The lines of a packet file after trim(): blank, a `#` comment, text that
\* is not hex, or the hex digits of a frame in either case of the letters.
ShortFrame == Frame(4, 10, 64, 6, Src4, Dst4, 0, 0, NoIcmp)
TextLine(kind) == [kind |-> kind, upper |-> FALSE, bytes |-> ShortFrame]
HexLine(upper, bytes) == [kind |-> "hex", upper |-> upper, bytes |-> bytes]
TcpFrame(v, ttl, src, dst) == Frame(v, HeaderLen(v), ttl, 6, src, dst, 1234, 80, NoIcmp)

\* hex::decode and hex::encode (which writes lowercase digits).
hex_decode(line) ==
    IF line.kind = "hex" THEN [ok |-> TRUE, bytes |-> line.bytes] ELSE [ok |-> FALSE]
hex_encode(raw) == HexLine(FALSE, raw)

\* The state in which start() has computed its tables on the fabric that
\* run() built from the topology of configuration c.
Boot(c) ==
    LET F == BuildFabric(c.topology.ids, c.topology.ls)
        a == c.tun_ingress.tun_a_ingress
        b == c.tun_ingress.tun_b_ingress
    IN [fabric |-> F,
        tables |-> compute_routing(F, a, b),
        mtables |-> IF c.enable_multipath
                    THEN compute_multi_path_routing(F, a, b) ELSE <<>>,
        routed |-> IF c.enable_multipath
                   THEN "compute_multi_path_routing" ELSE "compute_routing"]

NoTotal == [iterations |-> 0, calls |-> 0, unknown |-> FALSE]
InitTun(c, t) ==
    /\ nodes = Boot(c).fabric.nodes /\ edges = Boot(c).fabric.edges
    /\ router_index = Boot(c).fabric.router_index
    /\ link_index = Boot(c).fabric.link_index
    /\ ingress_a = c.tun_ingress.tun_a_ingress
    /\ ingress_b = c.tun_ingress.tun_b_ingress
    /\ tables = Boot(c).tables /\ mtables = Boot(c).mtables /\ routed = Boot(c).routed
    /\ pc = "idle" /\ mode = "single" /\ ingress = EmptyId /\ packet = NoPacket
    /\ destination = "TunA" /\ hop_count = 0 /\ call = NoCall /\ total = NoTotal
    /\ tasks = <<>> /\ picks = <<>> /\ config = c /\ tun = t

\* No forwarding call is in progress.
CallIdle == pc \in {"idle", "returned"}

(***************************************************************************)
(* File mode of tun::start: the burst of the synthetic generator, then the *)
(* packet files line by line, each parsed frame forwarded and its result   *)
(* appended to the output file.  The same configuration and files are then *)
(* executed again by a fresh process.  Neither run() nor start() calls     *)
(* init_rng, so the generator behind the loss draws is seeded from entropy *)
(* in every execution, whatever simulation.seed says.                      *)
(***************************************************************************)
Executions == 2

LossyLine == [ids |-> <<Rx0y0, Rx0y1, Rx0y2>>,
              ls |-> <<L(Rx0y0, Rx0y1, LinkConfig(<<>>, 0, 50, FALSE)),
                       L(Rx0y1, Rx0y2, Plain(0))>>]
PlainLine == [ids |-> <<Rx0y0, Rx0y1>>, ls |-> <<L(Rx0y0, Rx0y1, Plain(0))>>]

FileOne == <<TextLine("comment"), HexLine(FALSE, TcpFrame(4, 64, Src4, Dst4)),
             TextLine("text"), TextLine("blank"),
             HexLine(TRUE, TcpFrame(4, 64, Dst4, Src4)),
             HexLine(FALSE, ShortFrame), HexLine(FALSE, TcpFrame(4, 1, Src4, Dst4))>>
FileTwo == <<HexLine(FALSE, TcpFrame(6, 64, Dst6, Src6)),
             HexLine(FALSE, TcpFrame(4, 64, Outside4, Dst4))>>
OldLine == HexLine(FALSE, TcpFrame(4, 9, Src4, Dst4))

\* SimulatorConfig; `files` holds the contents of the paths of packet_file
\* or packet_files, `old` what their output files hold beforehand.
FileConfig(topology, multipath, files, inject, injects, vc, old) ==
    [topology |-> topology,
     tun_ingress |-> TunIngress(topology.ids[1], topology.ids[Len(topology.ids)]),
     simulation |-> [seed |-> <<42>>],
     enable_multipath |-> multipath,
     packet_file |-> IF Len(files) = 1 /\ injects = <<>> THEN <<1>> ELSE <<>>,
     packet_files |-> IF Len(files) = 1 /\ injects = <<>> THEN <<>> ELSE <<files>>,
     packet_inject_tun |-> inject, packet_inject_tuns |-> injects,
     virtual_customer |-> vc, files |-> files, old |-> old]

Customers == {<<>>, <<VirtualCustomer(Src4, Dst4, <<>>)>>,
              <<VirtualCustomer(Dst6, Src6, <<10>>)>>}
FileConfigs ==
    {FileConfig(PlainLine, FALSE, <<FileOne>>, i, <<>>, vc, <<>>)
        : i \in {<<>>, <<"tun_a">>, <<"tun_b">>}, vc \in Customers}
    \cup {FileConfig(PlainLine, FALSE, <<FileOne, FileTwo>>, <<>>, is, vc, <<>>)
        : is \in {<<>>, <<"tun_b", "tun_a">>}, vc \in Customers}
    \cup {FileConfig(LossyLine, FALSE, <<FileOne>>, <<>>, <<>>, <<>>, old)
        : old \in {<<>>, <<OldLine>>}}
    \cup {FileConfig(PlainLine, TRUE, <<FileOne>>, <<>>, <<>>, vc, <<>>)
        : vc \in {<<>>, <<VirtualCustomer(Src4, Dst4, <<>>)>>}}

\* start() at its first statement in execution n; `first` is what the
\* first execution left in the output files.
TunStart(c, n, first) ==
    [pc |-> "burst",
     burst |-> IF c.virtual_customer = <<>> THEN 0
               ELSE IF c.virtual_customer[1].rate = <<>> THEN 1
               ELSE c.virtual_customer[1].rate[1],
     file |-> 1, line |-> 1, pending |-> <<>>, origin |-> <<>>,
     out |-> [i \in 1..Len(c.files) |-> c.old],
     from |-> [i \in 1..Len(c.files) |-> <<>>],
     execution |-> n, first |-> first]

InitFile == \E c \in FileConfigs : InitTun(c, TunStart(c, 1, <<>>))

\* One generate_virtual_packet call of the initial burst; its result is
\* dropped.
TF_Generate ==
    /\ tun.pc = "burst" /\ tun.burst > 0 /\ CallIdle
    /\ LET p == virtual_packet(config.virtual_customer[1])
           via == generator_ingress(p.src_ip)
       IN /\ Begin(via.ingress, p, via.destination)
          /\ tun' = [tun EXCEPT !.burst = @ - 1,
                        !.origin = <<[by |-> "generator",
                                      inject |-> config.packet_inject_tun]>>]
    /\ UNCHANGED <<fabricVars, routeVars, tasks, picks, config>>

\* File::open of the input and OpenOptions::append of `<path>_out.txt`.
TF_Open ==
    /\ tun.pc = "burst" /\ tun.burst = 0 /\ CallIdle
    /\ tun' = [tun EXCEPT !.pc = "lines", !.origin = <<>>]
    /\ UNCHANGED <<fabricVars, routeVars, callVars, tasks, picks, config>>

\* The line the reader is at, and the directive that applies to its file.
AtLine ==
    /\ tun.pc = "lines" /\ tun.pending = <<>> /\ CallIdle
    /\ tun.line <= Len(config.files[tun.file])
CurrentLine == config.files[tun.file][tun.line]
Directive ==
    IF config.packet_file # <<>> THEN config.packet_inject_tun
    ELSE IF tun.file <= Len(config.packet_inject_tuns)
         THEN <<config.packet_inject_tuns[tun.file]>> ELSE <<>>
SkippedUpperMut(line) ==
    IF line.kind \in {"blank", "comment"} THEN TRUE
    ELSE IF ~hex_decode(line).ok \/ line.upper THEN TRUE
    ELSE ~parse(hex_decode(line).bytes).ok
Skipped(line) ==
    IF line.kind \in {"blank", "comment"} THEN TRUE
    ELSE IF ~hex_decode(line).ok THEN TRUE
    ELSE ~parse(hex_decode(line).bytes).ok

\* A blank line, a comment, a hex error or a parse error: `continue`.
TF_Skip ==
    /\ AtLine /\ Skipped(CurrentLine)
    /\ tun' = [tun EXCEPT !.line = @ + 1]
    /\ UNCHANGED <<fabricVars, routeVars, callVars, tasks, picks, config>>

\* A line that parses: the forwarding call is made.
TF_Process ==
    /\ AtLine /\ ~Skipped(CurrentLine)
    /\ LET p == parse(hex_decode(CurrentLine).bytes).packet
           via == file_ingress(Directive, p.src_ip)
       IN /\ Begin(via.ingress, p, via.destination)
          /\ tun' = [tun EXCEPT !.pending = <<tun.line>>,
                        !.origin = <<[by |-> "file", inject |-> Directive]>>]
    /\ UNCHANGED <<fabricVars, routeVars, tasks, picks, config>>

\* writeln!(out_file, "{}", hex::encode(&processed.raw))
TF_Write ==
    /\ tun.pc = "lines" /\ tun.pending # <<>> /\ pc = "returned"
    /\ tun' = [tun EXCEPT !.out[tun.file] = Append(@, hex_encode(packet.raw)),
                          !.from[tun.file] = Append(@, tun.pending[1]),
                          !.pending = <<>>, !.line = @ + 1]
    /\ UNCHANGED <<fabricVars, routeVars, callVars, tasks, picks, config>>

\* The end of a file: the next of packet_files, or start() returns.
TF_EndOfFile ==
    /\ tun.pc = "lines" /\ tun.pending = <<>> /\ CallIdle
    /\ tun.line > Len(config.files[tun.file])
    /\ tun' = IF tun.file < Len(config.files)
              THEN [tun EXCEPT !.file = @ + 1, !.line = 1]
              ELSE [tun EXCEPT !.pc = "done"]
    /\ UNCHANGED <<fabricVars, routeVars, callVars, tasks, picks, config>>

\* Another execution of the same configuration on the same packet files,
\* the output files as they were before the first.
TF_Again ==
    /\ tun.pc = "done" /\ tun.execution < Executions
    /\ nodes' = Boot(config).fabric.nodes /\ edges' = Boot(config).fabric.edges
    /\ pc' = "idle" /\ mode' = "single" /\ ingress' = EmptyId /\ packet' = NoPacket
    /\ destination' = "TunA" /\ hop_count' = 0 /\ call' = NoCall /\ total' = NoTotal
    /\ tun' = TunStart(config, tun.execution + 1,
                       IF tun.execution = 1 THEN tun.out ELSE tun.first)
    /\ UNCHANGED <<router_index, link_index, routeVars, tasks, picks, config>>

NextFile ==
    \/ TF_Generate
    \/ TF_Open
    \/ TF_Skip
    \/ TF_Process
    \/ TF_Write
    \/ TF_EndOfFile
    \/ TF_Again
    \/ SP_TtlExpired
    \/ SP_Arrived
    \/ \E h \in HashValues, lost \in BOOLEAN : SP_PacketLost(h, lost)
    \/ \E h \in HashValues, lost \in BOOLEAN : SP_Forwarded(h, lost)
    \/ MP_HopLimit
    \/ MP_TtlExpired
    \/ \E h \in HashValues, lost \in BOOLEAN : MP_Forwarded(h, lost)

SpecFile == InitFile /\ [][NextFile]_vars

(***************************************************************************)
(* The real-TUN bridge loop of tun::start.  `tun.pc` is "select" when the  *)
(* loop is at its select!, "forward_a", "forward_b" or "forward_vc" while  *)
(* the branch taken awaits its forwarding call, and "ended" after a break. *)
(* The shutdown signal can arrive at any moment; it is serviced by the     *)
(* select! alone.  `tap_a` and `tap_b` list the write_all calls on the two *)
(* devices, `reads` the tap each parsed frame came from.                   *)
(***************************************************************************)
MaxServiced == 2

BridgeConfig(topology, multipath, vc) ==
    [topology |-> topology,
     tun_ingress |-> TunIngress(topology.ids[1], topology.ids[Len(topology.ids)]),
     simulation |-> [seed |-> <<>>],
     enable_multipath |-> multipath,
     packet_file |-> <<>>, packet_files |-> <<>>,
     packet_inject_tun |-> <<>>, packet_inject_tuns |-> <<>>,
     virtual_customer |-> vc, files |-> <<>>, old |-> <<>>]
BridgeConfigs ==
    {BridgeConfig(LossyLine, FALSE, <<>>),
     BridgeConfig(PlainLine, FALSE, <<VirtualCustomer(Src4, Dst4, <<>>)>>),
     BridgeConfig(PlainLine, TRUE, <<>>)}

BridgeStart(c) ==
    [pc |-> "burst",
     burst |-> IF c.virtual_customer = <<>> THEN 0 ELSE c.virtual_customer[1].rate[1],
     origin |-> <<>>, signal |-> FALSE, during |-> "none", serviced |-> 0,
     last |-> "none", reads |-> <<>>, tap_a |-> <<>>, tap_b |-> <<>>]

InitBridge == \E c \in BridgeConfigs : InitTun(c, BridgeStart(c))

\* What a read on a tap device returns: an error, Ok(0), or Ok(n) with a
\* buffer: the 4-byte TUN header, when the device prepends one, and a frame.
Buffer(header, ip) == [kind |-> "Ok", header |-> header, ip |-> ip]
ReadResults ==
    {[kind |-> "Err", header |-> <<>>, ip |-> ShortFrame],
     [kind |-> "Zero", header |-> <<>>, ip |-> ShortFrame],
     Buffer(<<2054>>, TcpFrame(4, 64, Src4, Dst4)),
     Buffer(<<2048>>, TcpFrame(4, 64, Src4, Dst4)),
     Buffer(<<>>, TcpFrame(4, 1, Dst4, Src4)),
     Buffer(<<34525>>, TcpFrame(6, 64, Src6, Dst6))}

\* Bytes 2 and 3 of the buffer: the protocol of the TUN header, or the
\* total length of a bare IPv4 header, or flow label bits of a bare IPv6 one.
Bytes23(buf) ==
    IF buf.header # <<>> THEN buf.header[1]
    ELSE IF buf.ip.version = 4 THEN buf.ip.len ELSE 0
\* A buffer parsed from the wrong offset starts with a byte that is no IP
\* version.
Misaligned(buf) == [buf.ip EXCEPT !.version = 0]
packet_slice(buf) ==
    IF Bytes23(buf) \in {2048, 34525}
    THEN IF buf.header # <<>> THEN buf.ip ELSE Misaligned(buf)
    ELSE IF buf.header # <<>> THEN Misaligned(buf) ELSE buf.ip

\* write_buf: the TUN header for the version of processed.dst_ip, then raw.
write_buf(processed) ==
    [header |-> <<IF processed.dst_ip[1] = 4 THEN 2048 ELSE 34525>>,
     ip |-> processed.raw]

\* The device a frame read from `tap` is written to.
OtherTapSameMut(tap) == IF tap = "a" THEN "tap_a" ELSE "tap_b"
OtherTap(tap) == IF tap = "a" THEN "tap_b" ELSE "tap_a"

\* err_msg.contains("seek on unseekable file")
BenignNeverMut(w) == FALSE
Benign(w) == w = "unseekable"

\* The select! can take a branch: no branch is awaiting its forwarding.
ShutdownAnywhereMut == tun.pc \in {"select", "forward_a", "forward_b", "forward_vc"}
AtSelect == tun.pc = "select"

\* The burst is over and the two devices are created: the loop is entered.
BR_Enter ==
    /\ tun.pc = "burst" /\ tun.burst = 0 /\ CallIdle
    /\ tun' = [tun EXCEPT !.pc = "select", !.origin = <<>>]
    /\ UNCHANGED <<fabricVars, routeVars, callVars, tasks, picks, config>>

\* ctrl_c: the signal arrives.
BR_Signal ==
    /\ tun.pc # "ended" /\ ~tun.signal
    /\ tun' = [tun EXCEPT !.signal = TRUE, !.during = tun.pc]
    /\ UNCHANGED <<fabricVars, routeVars, callVars, tasks, picks, config>>

\* The branch of a read on tap A or tap B, up to its forwarding call.
BR_Read(tap, res) ==
    /\ AtSelect /\ CallIdle
    /\ tun.serviced < MaxServiced /\ total.iterations <= MaxEarlier
    /\ IF res.kind = "Err"
       THEN /\ tun' = [tun EXCEPT !.pc = "ended", !.last = "read_error",
                                  !.serviced = @ + 1]
            /\ UNCHANGED callVars
       ELSE IF res.kind = "Zero"
       THEN /\ tun' = [tun EXCEPT !.last = "zero", !.serviced = @ + 1]
            /\ UNCHANGED callVars
       ELSE IF ~parse(packet_slice(res)).ok
       THEN /\ tun' = [tun EXCEPT !.last = "unparseable", !.serviced = @ + 1]
            /\ UNCHANGED callVars
       ELSE /\ tun' = [tun EXCEPT !.pc = IF tap = "a" THEN "forward_a" ELSE "forward_b",
                                  !.last = "frame", !.serviced = @ + 1,
                                  !.reads = Append(@, tap)]
            /\ Begin(IF tap = "a" THEN ingress_a ELSE ingress_b,
                     parse(packet_slice(res)).packet,
                     IF tap = "a" THEN "TunB" ELSE "TunA")
    /\ UNCHANGED <<fabricVars, routeVars, tasks, picks, config>>

\* write_all of the processed packet on the other device, with its result.
BR_Write(w) ==
    /\ tun.pc \in {"forward_a", "forward_b"} /\ pc = "returned"
    /\ LET tap == IF tun.pc = "forward_a" THEN "a" ELSE "b"
           rec == [of |-> Len(tun.reads), buf |-> write_buf(packet), res |-> w]
       IN tun' = [tun EXCEPT ![OtherTap(tap)] = Append(@, rec),
                      !.pc = IF w = "ok" \/ Benign(w) THEN "select" ELSE "ended",
                      !.last = IF w = "ok" THEN "written"
                               ELSE IF w = "unseekable" THEN "unseekable"
                               ELSE "write_error"]
    /\ UNCHANGED <<fabricVars, routeVars, callVars, tasks, picks, config>>

\* The branch of the generator's interval: generate_virtual_packet.
BR_Tick ==
    /\ AtSelect /\ CallIdle /\ config.virtual_customer # <<>>
    /\ tun.serviced < MaxServiced /\ total.iterations <= MaxEarlier
    /\ LET p == virtual_packet(config.virtual_customer[1])
           via == generator_ingress(p.src_ip)
       IN /\ Begin(via.ingress, p, via.destination)
          /\ tun' = [tun EXCEPT !.pc = "forward_vc", !.last = "tick",
                                !.serviced = @ + 1]
    /\ UNCHANGED <<fabricVars, routeVars, tasks, picks, config>>

\* generate_virtual_packet returns: its packet is dropped.
BR_TickDone ==
    /\ tun.pc = "forward_vc" /\ pc = "returned"
    /\ tun' = [tun EXCEPT !.pc = "select"]
    /\ UNCHANGED <<fabricVars, routeVars, callVars, tasks, picks, config>>

\* The branch of the shutdown signal: the interfaces go down, break.
BR_Shutdown ==
    /\ AtSelect /\ tun.signal
    /\ tun' = [tun EXCEPT !.pc = "ended", !.last = "shutdown"]
    /\ UNCHANGED <<fabricVars, routeVars, callVars, tasks, picks, config>>

NextBridge ==
    \/ TF_Generate
    \/ BR_Enter
    \/ BR_Signal
    \/ \E tap \in {"a", "b"}, res \in ReadResults : BR_Read(tap, res)
    \/ \E w \in {"ok", "unseekable", "error"} : BR_Write(w)
    \/ BR_Tick
    \/ BR_TickDone
    \/ BR_Shutdown
    \/ SP_TtlExpired
    \/ SP_Arrived
    \/ \E h \in HashValues, lost \in BOOLEAN : SP_PacketLost(h, lost)
    \/ \E h \in HashValues, lost \in BOOLEAN : SP_Forwarded(h, lost)
    \/ MP_HopLimit
    \/ MP_TtlExpired
    \/ \E h \in HashValues, lost \in BOOLEAN : MP_Forwarded(h, lost)

SpecBridge == InitBridge /\ [][NextBridge]_vars

(***************************************************************************)
(* select_egress_link called twice.  DefaultHasher::new() has fixed keys,  *)
(* so the hash is one function of what is fed to it: the 5-tuple and the   *)
(* sum of the counters of the load-balanced candidates.  `picks` holds     *)
(* that function and the inputs and the result of the two calls; between   *)
(* the calls other traffic may count on a link.                            *)
(***************************************************************************)
MaxCount == 2

Balanced == LinkConfig(<<>>, 0, 0, TRUE)
SelectFabric ==
    BuildFabric(RouterSeq, <<L(Rx0y0, Rx0y1, Balanced), L(Rx0y0, Rx0y2, Balanced),
                             L(Rx0y1, Rx0y2, Plain(1))>>)
\* At Rx0y0 the next hop for TunA has a link and the one for TunB has none;
\* at Rx0y1 the links to the next hops are a balanced and a plain one.
SelectTables ==
    (Rx0y0 :> [tun_a |-> Entry(Rx0y1), tun_b |-> Entry(Rx0y0)])
    @@ (Rx0y1 :> [tun_a |-> Entry(Rx0y0), tun_b |-> Entry(Rx0y2)])
SelectPackets == {Packet(4, 100, 64), Packet(4, 101, 1), Packet(6, 40, 64)}

FiveTuple(p) == <<p.src_ip, p.dst_ip, p.src_port, p.dst_port, p.protocol>>
\* What the hasher is fed: the 5-tuple, then total_counter.
HashKeyTtlMut(p, total_counter) == <<FiveTuple(p), IF p.ttl > 1 THEN total_counter ELSE 0>>
HashKey(p, total_counter) == <<FiveTuple(p), total_counter>>
HashKeys == {HashKey(p, c) : p \in SelectPackets, c \in 0..MaxCount}

RECURSIVE SumCounters(_, _)
SumCounters(E, ls) ==
    IF ls = <<>> THEN 0 ELSE E[Head(ls)].counter + SumCounters(E, Tail(ls))

\* The load-balanced candidates of select_egress_link.
lb_links_of(E, router_id, links, T, dest) ==
    IF router_id \notin DOMAIN T THEN <<>>
    ELSE LET next_hop == Column(T[router_id], dest).next_hop
             direct == SelectSeq(links, LAMBDA i :
                          (E[i].id.a = router_id /\ E[i].id.b = next_hop)
                          \/ (E[i].id.b = router_id /\ E[i].id.a = next_hop))
             candidates == IF direct = <<>> THEN links ELSE direct
         IN SelectSeq(candidates, LAMBDA i : E[i].cfg.load_balance)

\* select_egress_link with the hash computed by the hasher.
select_with(hasher, E, router_id, p, links, T, dest) ==
    LET lb == lb_links_of(E, router_id, links, T, dest)
        h == IF lb = <<>> THEN 0 ELSE hasher[HashKey(p, SumCounters(E, lb))]
    IN select_egress_link(E, router_id, links, T, dest, h)

NoSelect == [done |-> FALSE]
InitSelect ==
    /\ nodes = SelectFabric.nodes /\ edges = SelectFabric.edges
    /\ router_index = SelectFabric.router_index
    /\ link_index = SelectFabric.link_index
    /\ ingress_a = Rx0y0 /\ ingress_b = Rx0y2
    /\ tables = SelectTables /\ mtables = <<>> /\ routed = "given"
    /\ pc = "idle" /\ mode = "single" /\ ingress = EmptyId /\ packet = NoPacket
    /\ destination = "TunA" /\ hop_count = 0 /\ call = NoCall /\ total = NoTotal
    /\ tasks = <<>> /\ config = <<>> /\ tun = <<>>
    /\ \E hasher \in [HashKeys -> HashValues] :
           picks = [hasher |-> hasher, first |-> NoSelect, second |-> NoSelect]

\* A call of select_egress_link: its inputs and what it returned.
Selected(router_id, p, dest) ==
    LET links == incident_links(edges, router_index, router_id)
    IN [done |-> TRUE, router_id |-> router_id, packet |-> p,
        links |-> links, counters |-> [k \in 1..Len(links) |-> edges[links[k]].counter],
        configs |-> [k \in 1..Len(links) |-> edges[links[k]].cfg],
        entry |-> Column(tables[router_id], dest),
        result |-> select_with(picks.hasher, edges, router_id, p, links, tables, dest)]

SE_First(router_id, p, dest) ==
    /\ ~picks.first.done
    /\ picks' = [picks EXCEPT !.first = Selected(router_id, p, dest)]
    /\ UNCHANGED <<fabricVars, routeVars, callVars, tasks, config, tun>>

SE_Second(router_id, p, dest) ==
    /\ picks.first.done /\ ~picks.second.done
    /\ picks' = [picks EXCEPT !.second = Selected(router_id, p, dest)]
    /\ UNCHANGED <<fabricVars, routeVars, callVars, tasks, config, tun>>

\* Other traffic crosses the first link: its counter grows.
SE_Traffic ==
    /\ ~picks.second.done /\ edges[1].counter < MaxCount
    /\ edges' = Counted(1)
    /\ UNCHANGED <<nodes, router_index, link_index, routeVars, callVars,
                   tasks, picks, config, tun>>

NextSelect ==
    \/ \E r \in {Rx0y0, Rx0y1}, p \in SelectPackets, dest \in {"TunA", "TunB"} :
           SE_First(r, p, dest)
    \/ \E r \in {Rx0y0, Rx0y1}, p \in SelectPackets, dest \in {"TunA", "TunB"} :
           SE_Second(r, p, dest)
    \/ SE_Traffic

SpecSelect == InitSelect /\ [][NextSelect]_vars

(***************************************************************************)
(* Packets as bytes.  A buffer is a sequence of bytes; offset i of the     *)
(* code is element i + 1.  An address is <<4, four bytes>> or              *)
(* <<6, sixteen bytes>>.                                                   *)
(***************************************************************************)
Hi(w) == (w \div 256) % 256
Lo(w) == w % 256
\* u16::from_be_bytes([data[i], data[i + 1]])
U16(data, i) == data[i + 1] * 256 + data[i + 2]
Put16(data, i, w) == [data EXCEPT ![i + 1] = Hi(w), ![i + 2] = Lo(w)]

\* while (sum >> 16) != 0 { sum = (sum & 0xFFFF) + (sum >> 16) }
RECURSIVE Fold(_)
Fold(sum) == IF sum \div 65536 # 0 THEN Fold((sum % 65536) + (sum \div 65536)) ELSE sum

\* The sum of the 16-bit words of data from offset i on, an odd last byte
\* padded with zero, the word at offset skip left out.
RECURSIVE WordSum(_, _, _)
WordSum(data, i, skip) ==
    IF i >= Len(data) THEN 0
    ELSE (IF i = skip THEN 0
          ELSE IF i + 1 < Len(data) THEN U16(data, i) ELSE data[i + 1] * 256)
         + WordSum(data, i + 2, skip)

\* !(sum as u16)
Not16(sum) == 65535 - (sum % 65536)

\* packet::calculate_ipv4_checksum
calculate_ipv4_checksum(header) ==
    IF Len(header) < 20 THEN 0
    ELSE LET ihl == (header[1] % 16) * 4
             h == SubSeq(header, 1, Min(ihl, Len(header)))
         IN Not16(Fold(WordSum(h, 0, 10)))

\* packet::update_ipv4_checksum
UpdateChecksumNotMut(buf) == buf
update_ipv4_checksum(buf) ==
    IF Len(buf) < 20 THEN buf
    ELSE LET zeroed == Put16(buf, 10, 0)
         IN Put16(zeroed, 10, calculate_ipv4_checksum(zeroed))

\* icmp::calculate_icmp_checksum
calculate_icmp_checksum(data) == Not16(Fold(WordSum(data, 0, -1)))

\* icmp::icmpv6_checksum, with the pseudo-header
icmpv6_checksum(src, dst, icmp) ==
    Not16(Fold(WordSum(src, 0, -1) + WordSum(dst, 0, -1)
               + ((Len(icmp) \div 65536) % 65536) + (Len(icmp) % 65536) + 58
               + WordSum(icmp, 0, -1)))

\* packet::parse on a buffer
parse_bytes(data) ==
    IF Len(data) < 20 THEN [ok |-> FALSE]
    ELSE IF data[1] \div 16 = 4
    THEN LET ihl == (data[1] % 16) * 4
             ports == data[10] \in {6, 17} /\ Len(data) >= ihl + 4
         IN IF ihl < 20 \/ Len(data) < U16(data, 2) THEN [ok |-> FALSE]
            ELSE [ok |-> TRUE, packet |->
                  [src_ip |-> <<4, SubSeq(data, 13, 16)>>,
                   dst_ip |-> <<4, SubSeq(data, 17, 20)>>,
                   src_port |-> IF ports THEN U16(data, ihl) ELSE 0,
                   dst_port |-> IF ports THEN U16(data, ihl + 2) ELSE 0,
                   protocol |-> data[10], ttl |-> data[9], raw |-> data]]
    ELSE IF data[1] \div 16 = 6
    THEN IF Len(data) < 40 \/ (data[7] = 0 /\ Len(data) < 42) THEN [ok |-> FALSE]
         ELSE LET next_header == IF data[7] = 0 THEN data[41] ELSE data[7]
                  transport_offset == IF data[7] = 0 THEN 40 + (data[42] + 1) * 8 ELSE 40
                  ports == next_header \in {6, 17} /\ Len(data) >= transport_offset + 4
              IN [ok |-> TRUE, packet |->
                  [src_ip |-> <<6, SubSeq(data, 9, 24)>>,
                   dst_ip |-> <<6, SubSeq(data, 25, 40)>>,
                   src_port |-> IF ports THEN U16(data, transport_offset) ELSE 0,
                   dst_port |-> IF ports THEN U16(data, transport_offset + 2) ELSE 0,
                   protocol |-> next_header, ttl |-> data[8], raw |-> data]]
    ELSE [ok |-> FALSE]

DecrementFieldOnlyMut(p) ==
    IF p.ttl = 0 THEN [ok |-> FALSE, packet |-> p]
    ELSE [ok |-> TRUE, packet |-> [p EXCEPT !.ttl = SatSub1(p.ttl)]]

\* PacketMeta::decrement_ttl on a packet with a buffer
decrement_ttl_bytes(p) ==
    IF p.ttl = 0 THEN [ok |-> FALSE, packet |-> p]
    ELSE [ok |-> TRUE, packet |->
          [p EXCEPT !.ttl = SatSub1(p.ttl),
                    !.raw = IF p.src_ip[1] = 4
                            THEN IF Len(p.raw) > 8
                                 THEN update_ipv4_checksum(
                                          [p.raw EXCEPT ![9] = SatSub1(p.raw[9])])
                                 ELSE p.raw
                            ELSE IF Len(p.raw) > 7
                                 THEN [p.raw EXCEPT ![8] = SatSub1(p.raw[8])]
                                 ELSE p.raw]]

\* The addresses the builders take from a packet of the other family.
AddressOr(ip, family) ==
    IF ip[1] = family THEN ip[2]
    ELSE IF family = 4 THEN <<0, 0, 0, 0>> ELSE [i \in 1..16 |-> 0]

\* The IPv4 ICMP error with the ICMP header `icmp_header`: the IPv4 header
\* with TTL 64 and protocol 1, the ICMP header, at most 28 bytes of the
\* original, then the total length and the two checksums.
Icmp4Packet(src_ip, dst_ip, icmp_header, raw) ==
    LET built == <<69, 0, 0, 0, 0, 0, 0, 0, IcmpTtl, 1, 0, 0>> \o src_ip \o dst_ip
                 \o icmp_header \o SubSeq(raw, 1, Min(28, Len(raw)))
        sized == Put16(built, 2, Len(built) % 65536)
        summed == update_ipv4_checksum(SubSeq(sized, 1, 20))
                  \o SubSeq(sized, 21, Len(sized))
    IN Put16(summed, 22, calculate_icmp_checksum(SubSeq(summed, 21, Len(summed))))

\* icmp::generate_icmp_error
generate_icmp_error_bytes(original, error_type, code) ==
    Icmp4Packet(AddressOr(original.dst_ip, 4), AddressOr(original.src_ip, 4),
                <<error_type, code, 0, 0, 0, 0, 0, 0>>, original.raw)

\* icmp::generate_fragmentation_needed
generate_fragmentation_needed_bytes(original, mtu) ==
    Icmp4Packet(AddressOr(original.dst_ip, 4), AddressOr(original.src_ip, 4),
                <<3, 4, 0, 0, Hi(mtu % 65536), Lo(mtu % 65536)>>, original.raw)

\* The IPv6 ICMP error from src to dst: Hop Limit 64, Next Header 58.
Icmp6Packet(src, dst, error_type, code, raw) ==
    LET head == <<96, 0, 0, 0, 0, 0, 58, IcmpTtl>> \o src \o dst
                \o <<error_type, code, 0, 0>>
                \o (IF error_type = 3 THEN <<0, 0, 0, 0>> ELSE <<>>)
        buf == head \o SubSeq(raw, 1, Min(1280 - Len(head), Len(raw)))
        sized == Put16(buf, 4, (Len(buf) - 40) % 65536)
    IN Put16(sized, 42, icmpv6_checksum(src, dst, SubSeq(sized, 41, Len(sized))))

\* icmp::generate_icmpv6_error
GenerateIcmpv6UnswappedMut(original, error_type, code) ==
    Icmp6Packet(AddressOr(original.src_ip, 6), AddressOr(original.dst_ip, 6),
                error_type, code, original.raw)
generate_icmpv6_error_bytes(original, error_type, code) ==
    Icmp6Packet(AddressOr(original.dst_ip, 6), AddressOr(original.src_ip, 6),
                error_type, code, original.raw)

\* The error the processor builds: on TTL expiry, without a routing table,
\* on MtuExceeded { mtu }.
IcmpBytes(kind, p, mtu) ==
    IF kind = "ttl"
    THEN IF p.src_ip[1] = 6 THEN generate_icmpv6_error_bytes(p, 3, 0)
         ELSE generate_icmp_error_bytes(p, 11, 0)
    ELSE IF kind = "noroute"
    THEN IF p.src_ip[1] = 6 THEN generate_icmpv6_error_bytes(p, 3, 0)
         ELSE generate_icmp_error_bytes(p, 3, 0)
    ELSE IF p.src_ip[1] = 6 THEN generate_icmpv6_error_bytes(p, 2, 0)
         ELSE generate_fragmentation_needed_bytes(p, mtu)

\* Router::generate_addresses: 10.(100+x).y.1 and fd00::x:y.
generate_addresses(id) ==
    IF validate(id)
    THEN [ipv4 |-> <<4, <<10, 100 + id[1], id[2], 1>>>>,
          ipv6 |-> <<6, <<253, 0, 0, 0, 0, 0, 0, 0, 0, 0, 0, 0, 0, id[1], 0, id[2]>>>>]
    ELSE [ipv4 |-> <<4, <<0, 0, 0, 0>>>>, ipv6 |-> <<6, [i \in 1..16 |-> 0]>>]

(***************************************************************************)
(* decrement_ttl and the ICMP builders applied to parsed packets.  The     *)
(* packet is one that parse returned; it is decremented, and at most once  *)
(* a router answers it with an ICMP error, which takes its place as in the *)
(* processor.  `picks` holds the parsed packet, the packet now, the packet *)
(* before the last operation, and the reply with its router and MTU.       *)
(***************************************************************************)
MaxDecrements == 3

\* An IPv4 buffer: version and IHL, identification, TTL, stored checksum,
\* destination, and n bytes in all, the bytes after offset 20 being 1, 2 ...
Buffer4(first, id, ttl, checksum, dst, n) ==
    <<first, 0, Hi(n), Lo(n), Hi(id), Lo(id), 0, 0, ttl, 6, Hi(checksum), Lo(checksum),
      10, 0, 0, 1>> \o dst \o [i \in 1..(n - 20) |-> i]
\* An IPv6 buffer: Next Header, Hop Limit and n bytes in all.
Buffer6(next_header, hop_limit, n) ==
    <<96, 0, 0, 0, Hi(n - 40), Lo(n - 40), next_header, hop_limit>>
    \o <<32, 1, 13, 184, 0, 0, 0, 0, 0, 0, 0, 0, 0, 0, 0, 1>>
    \o <<32, 1, 13, 184, 0, 0, 0, 0, 0, 0, 0, 0, 0, 0, 0, 2>>
    \o [i \in 1..(n - 40) |-> IF i = 2 THEN 0 ELSE 6]
Buffers ==
    {Buffer4(first, id, ttl, checksum, dst, n) :
        first \in {69, 70}, id \in {0, 65535}, ttl \in {0, 1, 3, 255},
        checksum \in {0, 65535}, dst \in {<<10, 0, 1, 1>>, <<255, 255, 255, 255>>},
        n \in {20, 28, 60}}
    \cup {Buffer6(next_header, hop_limit, n) :
            next_header \in {0, 6}, hop_limit \in {0, 1, 3}, n \in {40, 52, 100}}
    \cup {[i \in 1..19 |-> 69], [i \in 1..40 |-> 16]}

NoReply == [at |-> EmptyId, kind |-> "none", mtu |-> 0, bytes |-> <<>>]
ReplyMtus == {100, 1500}
InitPacket ==
    /\ InitCore(BuildFabric(<<Rx0y0, Rx0y1>>, <<>>))
    /\ tasks = <<>> /\ config = <<>> /\ tun = <<>>
    /\ \E data \in Buffers :
          /\ parse_bytes(data).ok
          /\ picks = [original |-> parse_bytes(data).packet,
                      before |-> parse_bytes(data).packet,
                      now |-> parse_bytes(data).packet,
                      last |-> "parsed", calls |-> 0, reply |-> NoReply]

\* packet.decrement_ttl()
PK_Decrement ==
    /\ picks.calls < MaxDecrements \/ picks.now.ttl = 0
    /\ LET r == decrement_ttl_bytes(picks.now)
       IN picks' = [picks EXCEPT !.before = picks.now, !.now = r.packet,
                                 !.last = IF r.ok THEN "decremented" ELSE "failed",
                                 !.calls = IF r.ok THEN @ + 1 ELSE @]
    /\ UNCHANGED <<fabricVars, routeVars, callVars, tasks, config, tun>>

\* The processor at router r answers the packet with an ICMP error, which
\* takes the packet's place when it parses.
PK_Reply(r, kind, mtu) ==
    /\ picks.reply.at = EmptyId
    /\ LET bytes == IcmpBytes(kind, picks.now, mtu)
           icmp_packet == parse_bytes(bytes)
       IN picks' = [picks EXCEPT
                       !.before = picks.now,
                       !.now = IF icmp_packet.ok THEN icmp_packet.packet ELSE @,
                       !.last = kind, !.calls = 0,
                       !.reply = [at |-> r, kind |-> kind, mtu |-> mtu, bytes |-> bytes]]
    /\ UNCHANGED <<fabricVars, routeVars, callVars, tasks, config, tun>>

NextPacket ==
    \/ PK_Decrement
    \/ \E r \in DOMAIN router_index, kind \in {"ttl", "noroute"} : PK_Reply(r, kind, 0)
    \/ \E r \in DOMAIN router_index, mtu \in ReplyMtus : PK_Reply(r, "mtu", mtu)

SpecPacket == InitPacket /\ [][NextPacket]_vars

(***************************************************************************)
(* The construction of a fabric call by call: add_router and add_link in   *)
(* any order, on an initially empty fabric.  A failed expect() panics.     *)
(***************************************************************************)
MaxNodes == 3
MaxEdges == 3
\* Rx0y6 is not an id of the 6x6 grid.
FabricIds == {Rx0y0, Rx0y1, <<0, 6>>}
FabricCfgs == {Plain(0), Plain(5)}

Fabric == [nodes |-> nodes, edges |-> edges,
           router_index |-> router_index, link_index |-> link_index]
SetFabric(F) ==
    /\ nodes' = F.nodes /\ edges' = F.edges
    /\ router_index' = F.router_index /\ link_index' = F.link_index

InitFabric == InitWith(FabricNew)

\* fabric.add_router(Router::new(id))
FB_AddRouter(id) ==
    /\ pc = "idle" /\ Len(nodes) < MaxNodes
    /\ IF validate(id)
       THEN SetFabric(add_router(Fabric, id)) /\ pc' = "idle"
       ELSE pc' = "panicked" /\ UNCHANGED fabricVars
    /\ UNCHANGED <<routeVars, mode, ingress, packet, destination, hop_count, call,
                   total, envVars>>

\* fabric.add_link(&a, &b, cfg)
FB_AddLink(a, b, cfg) ==
    /\ pc = "idle" /\ Len(edges) < MaxEdges
    /\ IF a \in DOMAIN router_index /\ b \in DOMAIN router_index
       THEN SetFabric(add_link(Fabric, a, b, cfg)) /\ pc' = "idle"
       ELSE pc' = "panicked" /\ UNCHANGED fabricVars
    /\ UNCHANGED <<routeVars, mode, ingress, packet, destination, hop_count, call,
                   total, envVars>>

NextFabric ==
    \/ \E id \in FabricIds : FB_AddRouter(id)
    \/ \E a, b \in FabricIds, cfg \in FabricCfgs : FB_AddLink(a, b, cfg)

SpecFabric == InitFabric /\ [][NextFabric]_vars

(***************************************************************************)
(* SimulatorConfig::validate.  Router names are ids, a link name is the    *)
(* sequence of its parts between '_', and topology.links, a HashMap, is    *)
(* visited in any order.  The files that exist are a field of the input;   *)
(* the TUN addresses keep their (valid) defaults.                          *)
(***************************************************************************)
MaxLinkNames == 3
RouterNames == {Rx0y0, Rx0y1, Rx0y2}
\* Rx0y0_Rx0y1 and its opposite, a self-link, two links of Rx0y2, and a name
\* of three parts.
LinkNames == {<<Rx0y0, Rx0y1>>, <<Rx0y1, Rx0y0>>, <<Rx0y1, Rx0y1>>,
              <<Rx0y0, Rx0y2>>, <<Rx0y2, Rx0y1>>, <<Rx0y0, Rx0y1, Rx0y0>>}
\* packet_file, packet_files, packet_inject_tun, packet_inject_tuns, and the
\* files that exist.
Injection(file, files, inject, injects, disk) ==
    [packet_file |-> file, packet_files |-> files, packet_inject_tun |-> inject,
     packet_inject_tuns |-> injects, disk |-> disk]
Injections4 ==
    {Injection(<<>>, <<>>, <<>>, <<>>, {}),
     Injection(<<"in.txt">>, <<>>, <<"tun_b">>, <<>>, {"in.txt"}),
     Injection(<<"in.txt">>, << <<"in.txt", "b.txt">> >>, <<"tun_c">>, <<>>, {}),
     Injection(<<>>, <<>>, <<"tun_c">>, << <<"tun_a">> >>, {}),
     Injection(<<>>, <<>>, <<>>, << <<"tun_c">> >>, {}),
     Injection(<<"in.txt">>, <<>>, <<"tun_c">>, <<>>, {}),
     Injection(<<>>, << <<"in.txt", "b.txt">> >>, <<>>, << <<"tun_a", "tun_c">> >>,
               {"in.txt"}),
     Injection(<<>>, << <<"in.txt", "b.txt">> >>, <<>>, << <<"tun_a">> >>, {"in.txt"}),
     Injection(<<>>, << <<>> >>, <<>>, << <<>> >>, {}),
     Injection(<<"in.txt">>, <<>>, <<>>, <<>>, {}),
     Injection(<<>>, << <<"in.txt", "b.txt">> >>, <<>>, <<>>, {"in.txt"}),
     Injection(<<>>, << <<"in.txt", "b.txt">> >>, <<>>, << <<"tun_a", "tun_b">> >>,
               {"in.txt", "b.txt"})}
ValidateConfigs ==
    {[packet_file |-> f.packet_file, packet_files |-> f.packet_files,
      packet_inject_tun |-> f.packet_inject_tun,
      packet_inject_tuns |-> f.packet_inject_tuns, disk |-> f.disk,
      routers |-> rs, links |-> ls,
      tun_a_ingress |-> Rx0y0, tun_b_ingress |-> b] :
        f \in Injections4,
        rs \in {{}, {Rx0y0, Rx0y1}, RouterNames},
        ls \in {s \in SUBSET LinkNames : Cardinality(s) <= MaxLinkNames},
        b \in {Rx0y1, Rx0y2}}

\* The orders in which the keys of a HashMap can be visited.
Orders(S) ==
    {o \in [1..Cardinality(S) -> S] : \A i, j \in DOMAIN o : i # j => o[i] # o[j]}

KeyAsGivenMut(a, b) == <<a, b>>
\* let key = if a < b { (a, b) } else { (b, a) }
LinkKey(a, b) == IF IdLe(a, b) /\ a # b THEN <<a, b>> ELSE <<b, a>>

\* The loop over the link names, with the keys seen so far.
RECURSIVE validate_links(_, _, _)
validate_links(c, order, seen) ==
    IF order = <<>> THEN "Ok"
    ELSE LET parts == Head(order)
         IN IF Len(parts) # 2 THEN "Invalid link name"
            ELSE IF parts[1] \notin c.routers \/ parts[2] \notin c.routers
                 THEN "unknown router"
            ELSE IF LinkKey(parts[1], parts[2]) \in seen
                 THEN "Duplicate bidirectional link"
            ELSE validate_links(c, Tail(order),
                                seen \cup {LinkKey(parts[1], parts[2])})

IsDirection(d) == d = "tun_a" \/ d = "tun_b"

\* The checks on the topology and on the ingress routers.
validate_topology(c, order) ==
    IF c.routers = {} THEN "Topology must define at least one router"
    ELSE IF validate_links(c, order, {}) # "Ok" THEN validate_links(c, order, {})
    ELSE IF c.tun_a_ingress \notin c.routers \/ c.tun_b_ingress \notin c.routers
         THEN "Ingress router not found in topology"
    ELSE IF ~validate(c.tun_a_ingress) \/ ~validate(c.tun_b_ingress)
         THEN "Invalid router id"
    ELSE "Ok"

ValidateTopologyFirstMut(c, order) ==
    IF validate_topology(c, order) # "Ok" THEN validate_topology(c, order)
    ELSE IF c.packet_file # <<>> /\ c.packet_files # <<>>
    THEN "Both 'packet_file' and 'packet_files' are set"
    ELSE "Ok"

\* SimulatorConfig::validate: the text that identifies the error, or "Ok".
validate_config(c, order) ==
    IF c.packet_file # <<>> /\ c.packet_files # <<>>
    THEN "Both 'packet_file' and 'packet_files' are set"
    ELSE IF c.packet_inject_tun # <<>> /\ c.packet_file = <<>>
    THEN "'packet_inject_tun' specified without a 'packet_file'"
    ELSE IF c.packet_inject_tuns # <<>> /\ c.packet_files = <<>>
    THEN "'packet_inject_tuns' specified without 'packet_files'"
    ELSE IF c.packet_inject_tun # <<>> /\ ~IsDirection(c.packet_inject_tun[1])
    THEN "Invalid packet_inject_tun value"
    ELSE IF /\ c.packet_inject_tuns # <<>>
            /\ \E i \in DOMAIN c.packet_inject_tuns[1] :
                  ~IsDirection(c.packet_inject_tuns[1][i])
    THEN "Invalid packet_inject_tuns value"
    ELSE IF /\ c.packet_files # <<>> /\ c.packet_inject_tuns # <<>>
            /\ Len(c.packet_files[1]) # Len(c.packet_inject_tuns[1])
    THEN "Number of packet files does not match number of injection directions"
    ELSE IF /\ c.packet_files # <<>> /\ c.packet_inject_tuns # <<>>
            /\ c.packet_files[1] = <<>>
    THEN "packet_files list cannot be empty"
    ELSE IF c.packet_file # <<>> /\ c.packet_file[1] \notin c.disk
    THEN "packet_file does not exist"
    ELSE IF /\ c.packet_files # <<>>
            /\ \E i \in DOMAIN c.packet_files[1] : c.packet_files[1][i] \notin c.disk
    THEN "packet file does not exist"
    ELSE validate_topology(c, order)

NotValidated == [order |-> <<>>, result |-> "none"]

InitValidate ==
    /\ InitCore(FabricNew)
    /\ tasks = <<>> /\ tun = <<>> /\ picks = NotValidated
    /\ config \in ValidateConfigs

\* cfg.validate()
VA_Validate(order) ==
    /\ picks.result = "none"
    /\ picks' = [order |-> order, result |-> validate_config(config, order)]
    /\ UNCHANGED <<fabricVars, routeVars, callVars, tasks, config, tun>>

NextValidate == \E order \in Orders(config.links) : VA_Validate(order)

SpecValidate == InitValidate /\ [][NextValidate]_vars

(***************************************************************************)
(* run(): the fabric is built from the topology, both routing computations *)
(* are made, a dummy packet is processed at the first router the           *)
(* router_index HashMap yields (by process_packet, and by                  *)
(* process_packet_multi as well when enable_multipath is set), then        *)
(* tun::start is called and the fabric is returned.  The configurations    *)
(* have no packet file, no virtual customer and no TUN address, so start   *)
(* returns at once.  `tun.pc` is where run() is.                           *)
(***************************************************************************)
RunConfig(topology, multipath, b) ==
    [topology |-> topology,
     tun_ingress |-> TunIngress(topology.ids[1], b),
     enable_multipath |-> multipath,
     packet_file |-> <<>>, packet_files |-> <<>>, virtual_customer |-> <<>>,
     real_tun_a |-> [address |-> ""], real_tun_b |-> [address |-> ""]]
RunConfigs ==
    UNION {{RunConfig(s, m, s.ids[i]) : m \in BOOLEAN, i \in 1..Len(s.ids)}
              : s \in Scenarios}

\* The dummy packet of run(): a PacketMeta with an empty raw buffer.
DummyPacket ==
    [src_ip |-> Src4, dst_ip |-> Dst4, src_port |-> 12345, dst_port |-> 80,
     protocol |-> 6, ttl |-> 64,
     raw |-> Frame(4, 0, 0, 0, Unspecified4, Unspecified4, 0, 0, NoIcmp)]
DummyDestination(first_router_id) ==
    IF first_router_id = ingress_a THEN "TunB" ELSE "TunA"

InitRun ==
    \E c \in RunConfigs :
        /\ InitCore(BuildFabric(c.topology.ids, c.topology.ls))
        /\ tasks = <<>> /\ picks = <<>> /\ config = c
        /\ tun = [pc |-> "built", first |-> EmptyId]

RN_ComputeTables ==
    /\ tun.pc = "built"
    /\ ingress_a' = config.tun_ingress.tun_a_ingress
    /\ ingress_b' = config.tun_ingress.tun_b_ingress
    /\ tables' = compute_routing(FabricOf, config.tun_ingress.tun_a_ingress,
                                 config.tun_ingress.tun_b_ingress)
    /\ mtables' = IF config.enable_multipath
                  THEN compute_multi_path_routing(FabricOf,
                           config.tun_ingress.tun_a_ingress,
                           config.tun_ingress.tun_b_ingress)
                  ELSE <<>>
    /\ routed' = "compute_routing"
    /\ tun' = [tun EXCEPT !.pc = "routed"]
    /\ UNCHANGED <<fabricVars, callVars, tasks, picks, config>>

\* router_index.iter().next(): any router, in the order of the HashMap.
RN_Dummy(first_router_id) ==
    /\ tun.pc = "routed"
    /\ first_router_id \in DOMAIN router_index
    /\ Begin(first_router_id, DummyPacket, DummyDestination(first_router_id))
    /\ tun' = [tun EXCEPT !.pc = "dummy", !.first = first_router_id]
    /\ UNCHANGED <<fabricVars, routeVars, tasks, picks, config>>

RN_DummyMulti ==
    /\ tun.pc = "dummy" /\ pc = "returned" /\ config.enable_multipath
    /\ mode' = "multi" /\ ingress' = tun.first /\ packet' = DummyPacket
    /\ destination' = DummyDestination(tun.first) /\ hop_count' = 0
    /\ pc' = "running"
    /\ call' = [NoCall EXCEPT !.start = tun.first,
                              !.dest0 = DummyDestination(tun.first),
                              !.pkt0 = DummyPacket]
    /\ total' = [total EXCEPT !.calls = @ + 1]
    /\ tun' = [tun EXCEPT !.pc = "dummy_multi"]
    /\ UNCHANGED <<fabricVars, routeVars, tasks, picks, config>>

\* tun::start with nothing to read from, print_statistics and Ok(fabric).
RN_Start ==
    /\ pc = "returned"
    /\ \/ tun.pc = "dummy" /\ ~config.enable_multipath
       \/ tun.pc = "dummy_multi"
    /\ config.real_tun_a.address = "" /\ config.real_tun_b.address = ""
    /\ config.packet_file = <<>> /\ config.packet_files = <<>>
    /\ config.virtual_customer = <<>>
    /\ tun' = [tun EXCEPT !.pc = "done"]
    /\ UNCHANGED <<fabricVars, routeVars, callVars, tasks, picks, config>>

NextRun ==
    \/ RN_ComputeTables
    \/ \E r \in DOMAIN router_index : RN_Dummy(r)
    \/ RN_DummyMulti
    \/ RN_Start
    \/ SP_Arrived
    \/ \E h \in HashValues, lost \in BOOLEAN : SP_PacketLost(h, lost)
    \/ \E h \in HashValues, lost \in BOOLEAN : SP_Forwarded(h, lost)
    \/ MP_HopLimit
    \/ MP_TtlExpired
    \/ MP_Empty
    \/ \E h \in HashValues, lost \in BOOLEAN : MP_PacketLost(h, lost)
    \/ \E h \in HashValues, lost \in BOOLEAN : MP_Forwarded(h, lost)

SpecRun == InitRun /\ [][NextRun]_vars

(***************************************************************************)
(* Reference definitions for the routing claims: shortest-path distances   *)
(* by enumeration of the simple paths, independent of the Dijkstra run.    *)
(***************************************************************************)
NodeIds == 1..Len(nodes)
Cost(e) == IF e.cfg.delay_ms >= 1 THEN e.cfg.delay_ms ELSE 1
Between(u, v) ==
    {i \in 1..Len(edges) : (edges[i].src = u /\ edges[i].dst = v)
                           \/ (edges[i].src = v /\ edges[i].dst = u)}
MinOf(S) == CHOOSE x \in S : \A y \in S : x <= y
SimplePaths(s, v) ==
    {p \in {<<s>> \o q : q \in UNION {[1..k -> NodeIds \ {s}] : k \in 0..(Len(nodes) - 1)}} :
        /\ p[Len(p)] = v
        /\ \A i, j \in 1..Len(p) : i # j => p[i] # p[j]
        /\ \A i \in 1..(Len(p) - 1) : Between(p[i], p[i + 1]) # {}}
RECURSIVE PathCost(_)
PathCost(p) ==
    IF Len(p) <= 1 THEN 0
    ELSE MinOf({Cost(edges[i]) : i \in Between(p[1], p[2])}) + PathCost(Tail(p))
Reachable(s, v) == SimplePaths(s, v) # {}
ShortestDist(s, v) == MinOf({PathCost(p) : p \in SimplePaths(s, v)})
Connected == \A u, v \in NodeIds : Reachable(u, v)
NodeOf(r) == router_index[r]

\* The routers a node's edges lead to at least cost towards anchor node s,
\* and that least cost.
ViaCosts(n, s) ==
    {ShortestDist(s, Target(edges, i, n)) + Cost(edges[i])
        : i \in {k \in 1..Len(edges) :
                    (edges[k].src = n \/ edges[k].dst = n)
                    /\ Reachable(s, Target(edges, k, n))}}
BestVia(n, s) ==
    {nodes[Target(edges, i, n)].id
        : i \in {k \in 1..Len(edges) :
                    /\ (edges[k].src = n \/ edges[k].dst = n)
                    /\ Reachable(s, Target(edges, k, n))
                    /\ ShortestDist(s, Target(edges, k, n)) + Cost(edges[k])
                         = MinOf(ViaCosts(n, s))}}
HopSet(entries) == {entries[k].next_hop : k \in 1..Len(entries)}
CostSet(entries) == {entries[k].total_cost : k \in 1..Len(entries)}

TriangleFabric ==
    BuildFabric(<<Rx0y0, Rx0y1, Rx0y2>>,
                <<L(Rx0y0, Rx0y1, Plain(5)), L(Rx0y0, Rx0y2, Plain(10)),
                  L(Rx0y1, Rx0y2, Plain(5))>>)
InTriangle ==
    /\ edges = TriangleFabric.edges /\ router_index = TriangleFabric.router_index
    /\ ingress_a = Rx0y0 /\ ingress_b = Rx0y2

(***************************************************************************)
(* Reference definitions for the forwarding claims.                        *)
(***************************************************************************)
Stats(r) == nodes[router_index[r]].stats
RECURSIVE SumReceived(_)
SumReceived(n) == IF n = 0 THEN 0 ELSE nodes[n].stats.packets_received + SumReceived(n - 1)

\* The number of links of the path the tun_b column leads along from r.
RECURSIVE PathLinks(_, _)
PathLinks(r, fuel) ==
    IF fuel = 0 \/ tables[r].tun_b.next_hop = r THEN 0
    ELSE 1 + PathLinks(tables[r].tun_b.next_hop, fuel - 1)

LossFree == \A i \in 1..Len(edges) : edges[i].cfg.loss_percent = 0
FitsEveryLink(p) ==
    \A i \in 1..Len(edges) : edges[i].cfg.mtu = <<>> \/ p.raw.len <= edges[i].cfg.mtu[1]
TwoRouterLine == BuildFabric(<<Rx0y0, Rx0y1>>, <<L(Rx0y0, Rx0y1, Plain(0))>>)
InTwoRouterLine ==
    /\ router_index = TwoRouterLine.router_index
    /\ Len(edges) = 1 /\ edges[1].id = LinkIdNew(Rx0y0, Rx0y1) /\ edges[1].cfg = Plain(0)
    /\ ingress_a = Rx0y0 /\ ingress_b = Rx0y1

\* The first call of a run has returned.
FirstCallReturned == pc = "returned" /\ total.calls = 1

(***************************************************************************)
(* C1: with the tables of compute_routing, loss-free links and no MTU      *)
(* violation, a packet injected at ingress A towards TunB whose path to    *)
(* ingress B has k links and whose TTL t has t - k >= 2 is returned by     *)
(* process_packet at ingress B with TTL t - k, its addresses unchanged and *)
(* no ICMP generated; the routers that forwarded it have received = 1 and  *)
(* forwarded = 1, and ingress B has received = 1 and forwarded = 0.        *)
(***************************************************************************)
C1_Case ==
    /\ FirstCallReturned /\ routed = "compute_routing"
    /\ LossFree /\ FitsEveryLink(call.pkt0)
    /\ call.start = ingress_a /\ call.dest0 = "TunB"
    /\ Reachable(NodeOf(ingress_a), NodeOf(ingress_b))
    /\ call.pkt0.ttl - PathLinks(ingress_a, Len(nodes)) >= 2
C1_SinglePathDelivery ==
    C1_Case =>
        LET k == PathLinks(ingress_a, Len(nodes))
        IN /\ ingress = ingress_b /\ call.links = k /\ call.last = "arrived"
           /\ packet.ttl = call.pkt0.ttl - k /\ packet.raw.ttl = call.pkt0.ttl - k
           /\ packet.src_ip = call.pkt0.src_ip /\ packet.dst_ip = call.pkt0.dst_ip
           /\ packet.raw.src = call.pkt0.raw.src /\ packet.raw.dst = call.pkt0.raw.dst
           /\ call.icmps = 0
           /\ \A r \in DOMAIN router_index :
                 /\ Stats(r).icmp_generated = 0
                 /\ Stats(r).packets_forwarded >= 1 =>
                       Stats(r).packets_received = 1 /\ Stats(r).packets_forwarded = 1
           /\ Cardinality({r \in DOMAIN router_index : Stats(r).packets_forwarded = 1}) = k
           /\ Stats(ingress_b).packets_received = 1
           /\ Stats(ingress_b).packets_forwarded = 0

\* The two-router case: TTL 64 comes back as 63 after one link.
C1_Witness ==
    /\ C1_Case /\ InTwoRouterLine
    /\ call.pkt0.ttl = 64 /\ packet.ttl = 63 /\ call.links = 1
    /\ Stats(Rx0y0).packets_forwarded = 1

(***************************************************************************)
(* C2: for any fabric, any tables and any packet, a forwarding call runs   *)
(* at most 100 iterations of the loop and then returns the packet: it      *)
(* never ends otherwise.                                                   *)
(***************************************************************************)
C2_AtMostHundredIterationsThenReturns ==
    /\ call.iters <= HopLimit
    /\ hop_count <= HopLimit + 1
    /\ pc # "panicked"

(***************************************************************************)
(* C3: from zero counters, after any sequence of forwarding calls that     *)
(* visited only routers of the fabric, the received counters add up to the *)
(* number of loop iterations executed, and forwarded <= received at every  *)
(* router.                                                                 *)
(***************************************************************************)
C3_ReceivedCountsIterations ==
    ~total.unknown =>
        /\ SumReceived(Len(nodes)) = total.iterations
        /\ \A i \in 1..Len(nodes) :
              nodes[i].stats.packets_forwarded <= nodes[i].stats.packets_received

\* Two calls have returned, the second after running to the hop limit and
\* forwarding on the way.
C3_Witness ==
    /\ pc = "returned" /\ total.calls = 2 /\ ~total.unknown
    /\ call.iters = HopLimit /\ total.iterations > HopLimit
    /\ \E i \in 1..Len(nodes) : nodes[i].stats.packets_forwarded >= 2

(***************************************************************************)
(* C4: process_packet_multi delivers at the destination anchor as          *)
(* process_packet does: in the two-router loss-free line (A = Rx0y0,       *)
(* B = Rx0y1) with the tables of compute_multi_path_routing, a packet with *)
(* TTL 64 injected at Rx0y0 towards TunB is returned after exactly one     *)
(* link with TTL 63; Rx0y0 has forwarded = 1, Rx0y1 has received = 1 and   *)
(* forwarded = 0.                                                          *)
(***************************************************************************)
C4_MultiDeliversAtAnchor ==
    (/\ FirstCallReturned /\ routed = "compute_multi_path_routing"
     /\ InTwoRouterLine
     /\ call.start = Rx0y0 /\ call.dest0 = "TunB" /\ call.pkt0.ttl = 64) =>
        /\ call.links = 1 /\ packet.ttl = 63
        /\ Stats(Rx0y0).packets_forwarded = 1
        /\ Stats(Rx0y1).packets_received = 1
        /\ Stats(Rx0y1).packets_forwarded = 0

(***************************************************************************)
(* C9: a packet with TTL <= 1 at a router is not handed to the link        *)
(* simulator at that hop but replaced by a Time Exceeded reply, the        *)
(* router's icmp_generated grows by one and the destination is flipped     *)
(* (C9_TtlExpiryStep); and for a packet injected at ingress A with TTL 1   *)
(* the call returns that reply and the forwarded counter of ingress A      *)
(* stays 0 (C9_TtlOneAtIngressA).                                          *)
(***************************************************************************)
C9_TtlExpiryStep ==
    [][(pc = "running" /\ hop_count < HopLimit /\ packet.ttl <= 1) =>
          /\ edges' = edges
          /\ packet' = parse(TimeExceeded(packet)).packet
          /\ packet'.raw.icmp = IF is_ipv6(packet) THEN <<3, 0, 0>> ELSE <<11, 0, 0>>
          /\ nodes' = Increment(Increment(nodes, ingress, "packets_received"),
                                ingress, "icmp_generated")
          /\ destination' = opposite_destination(destination)]_vars
C9_TtlOneAtIngressA ==
    (/\ FirstCallReturned
     /\ routed \in {"compute_routing", "compute_multi_path_routing"}
     /\ call.start = ingress_a /\ call.dest0 = "TunB" /\ call.pkt0.ttl = 1) =>
        /\ packet = parse(TimeExceeded(call.pkt0)).packet
        /\ Stats(ingress_a).packets_forwarded = 0

(***************************************************************************)
(* C10: process_packet called for an IPv4 packet at a router with no entry *)
(* in an empty table map returns an ICMP Destination Unreachable reply     *)
(* (protocol 1, type 3, code 0) addressed to the sender of the packet, and *)
(* the router's icmp_generated is exactly 1 when the call returns.         *)
(***************************************************************************)
C10_UnreachableOnceToSender ==
    (/\ FirstCallReturned /\ mode = "single" /\ routed = "given" /\ tables = <<>>
     /\ call.start \in DOMAIN router_index
     /\ ~is_ipv6(call.pkt0) /\ call.pkt0.ttl > 1) =>
        /\ packet.protocol = 1 /\ packet.raw.icmp = <<3, 0, 0>>
        /\ packet.dst_ip = call.pkt0.src_ip
        /\ Stats(call.start).icmp_generated = 1

Called == {t \in DOMAIN tasks : tasks[t].pc # "start"}
C12_CounterCountsCalls ==
    /\ [](edges[1].counter = Cardinality(Called))
    /\ [][/\ edges'[1].counter >= edges[1].counter
          /\ edges'[1].counter # edges[1].counter =>
                /\ edges'[1].counter = edges[1].counter + 1
                /\ \E t \in DOMAIN tasks :
                      /\ tasks[t].pc = "start" /\ tasks'[t].pc = "counted"
                      /\ \A u \in DOMAIN tasks \ {t} : tasks'[u] = tasks[u]]_vars

\* All MaxTasks interleaved calls are over, with the three outcomes among
\* them, and the counter stands at MaxTasks.
C12_Witness ==
    /\ \A t \in DOMAIN tasks : tasks[t].pc = "done"
    /\ {tasks[t].result : t \in DOMAIN tasks} = {"Ok", "MtuExceeded", "PacketLost"}
    /\ Len(tasks) = MaxTasks /\ edges[1].counter = MaxTasks

\* In the forwarding runs a link counter moves only in an iteration that
\* hands the packet to simulate_link, by one, one link at a time.
C12_OnlySimulateLinkCounts ==
    [][\A i \in 1..Len(edges) :
          edges'[i].counter # edges[i].counter =>
             /\ edges'[i].counter = edges[i].counter + 1
             /\ call'.last \in {"forwarded", "lost", "mtu"}
             /\ call'.iters = call.iters + 1
             /\ \A j \in 1..Len(edges) : j # i => edges'[j] = edges[j]]_vars

(***************************************************************************)
(* C13: when simulate_link reports PacketLost at router R, R.lost grows by *)
(* exactly 1, R.forwarded and R.icmp_generated are unchanged, the call     *)
(* returns the packet as it was when lost, its TTL already decremented for *)
(* that hop, and no router is visited afterwards: no received counter      *)
(* moves until another call is made.                                       *)
(***************************************************************************)
C13_LostStopsTheCall ==
    [][/\ (pc = "running" /\ call'.last = "lost" /\ call'.iters = call.iters + 1) =>
             LET n == router_index[ingress]
             IN /\ nodes'[n].stats.packets_lost = nodes[n].stats.packets_lost + 1
                /\ nodes'[n].stats.packets_forwarded = nodes[n].stats.packets_forwarded
                /\ nodes'[n].stats.icmp_generated = nodes[n].stats.icmp_generated
                /\ nodes'[n].stats.packets_received = nodes[n].stats.packets_received + 1
                /\ \A m \in 1..Len(nodes) : m # n => nodes'[m] = nodes[m]
                /\ pc' = "returned" /\ ingress' = ingress
                /\ packet' = decrement_ttl(packet).packet
                /\ packet'.ttl = packet.ttl - 1
                /\ packet'.src_ip = packet.src_ip /\ packet'.dst_ip = packet.dst_ip
       /\ (pc = "returned" /\ call.last = "lost") =>
             /\ nodes' = nodes
             /\ pc' = "returned" => packet' = packet]_vars

\* A packet with TTL 64 was lost on the lossy link at Rx0y0: the call has
\* returned it with TTL 63, and Rx0y1 has received nothing.
C13_Witness ==
    /\ FirstCallReturned /\ call.last = "lost" /\ call.start = Rx0y0
    /\ call.pkt0.ttl = 64 /\ packet.ttl = 63 /\ call.iters = 1
    /\ Stats(Rx0y0) = [packets_received |-> 1, packets_forwarded |-> 0,
                       packets_lost |-> 1, icmp_generated |-> 0]
    /\ Stats(Rx0y1).packets_received = 0

(***************************************************************************)
(* C14: two executions of run(config) with the same simulation.seed and    *)
(* the same packet files, each starting without an output file, leave      *)
(* byte-identical output files, lossy links included.                      *)
(***************************************************************************)
C14_SameSeedSameOutputFiles ==
    (/\ tun.pc = "done" /\ tun.execution = 2
     /\ config.simulation.seed # <<>> /\ config.old = <<>>
     /\ \A i \in 1..Len(edges) : ~edges[i].cfg.load_balance)
        => tun.out = tun.first

(***************************************************************************)
(* C15: in the bridge loop every frame read from tap A that parses is      *)
(* processed from ingress A toward TunB, and its result is written exactly *)
(* once to tap B and never to tap A; symmetrically for tap B; whatever the *)
(* outcome of the forwarding: delivery, loss, hop-limit stop or an ICMP    *)
(* error reply.                                                            *)
(***************************************************************************)
Writes(tap, f) == Cardinality({k \in DOMAIN tun[tap] : tun[tap][k].of = f})
\* The branch that read frame f has gone past its write_all.
Forwarded(f) == f < Len(tun.reads) \/ tun.pc \notin {"forward_a", "forward_b"}
C15_ResultWrittenOnceToTheOtherTap ==
    /\ [](\A f \in 1..Len(tun.reads) :
            LET same == IF tun.reads[f] = "a" THEN "tap_a" ELSE "tap_b"
                other == IF tun.reads[f] = "a" THEN "tap_b" ELSE "tap_a"
            IN /\ Writes(same, f) = 0
               /\ Writes(other, f) = IF Forwarded(f) THEN 1 ELSE 0)
    /\ []((tun.pc = "forward_a" =>
              /\ tun.reads[Len(tun.reads)] = "a"
              /\ call.start = ingress_a /\ call.dest0 = "TunB")
          /\ (tun.pc = "forward_b" =>
              /\ tun.reads[Len(tun.reads)] = "b"
              /\ call.start = ingress_b /\ call.dest0 = "TunA"))
    /\ [][\A tap \in {"tap_a", "tap_b"} :
            tun'[tap] # tun[tap] =>
                /\ pc = "returned"
                /\ \E w \in {"ok", "unseekable", "error"} :
                      tun'[tap] = Append(tun[tap], [of |-> Len(tun.reads),
                                                     buf |-> write_buf(packet),
                                                     res |-> w])]_vars

\* On the lossy line a frame read from tap A was lost on its way and a
\* frame with TTL 1 read from tap B was answered with an ICMP error: tap B
\* holds the one write of the first, tap A the one write of the second, the
\* ICMP reply addressed to the sender of the frame.
C15_Witness ==
    /\ tun.reads = <<"a", "b">> /\ tun.pc = "select"
    /\ Len(tun.tap_b) = 1 /\ tun.tap_b[1].of = 1
    /\ Len(tun.tap_a) = 1 /\ tun.tap_a[1].of = 2
    /\ tun.tap_a[1].buf.ip.icmp # NoIcmp
    /\ call.icmps = 1 /\ call.pkt0.src_ip = Dst4 /\ packet.dst_ip = Dst4
    /\ \E r \in DOMAIN router_index : Stats(r).packets_lost > 0

(***************************************************************************)
(* C16: the bridge loop ends only on the shutdown signal, on a read error  *)
(* of a tap, or on a write error of a tap other than the "unseekable" one; *)
(* an unseekable write error, a read of zero bytes and a frame that does   *)
(* not parse leave the loop at its select!, ready for the next event.      *)
(***************************************************************************)
C16_LoopEndsOnlyOnShutdownOrFatalError ==
    [][/\ (tun.pc # "ended" /\ tun'.pc = "ended") =>
             \/ tun'.last = "shutdown" /\ tun.signal
             \/ tun'.last = "read_error" /\ tun'.serviced = tun.serviced + 1
             \/ /\ tun'.last = "write_error"
                /\ \E tap \in {"tap_a", "tap_b"} :
                      /\ Len(tun'[tap]) = Len(tun[tap]) + 1
                      /\ tun'[tap][Len(tun'[tap])].res = "error"
       /\ \A tap \in {"tap_a", "tap_b"} :
             (/\ Len(tun'[tap]) = Len(tun[tap]) + 1
              /\ tun'[tap][Len(tun'[tap])].res = "unseekable") =>
                 tun'.pc = "select" /\ pc' = "returned"
       /\ (tun'.serviced = tun.serviced + 1 /\ tun'.last \in {"zero", "unparseable"}) =>
             /\ tun'.pc = "select" /\ tun.pc = "select"
             /\ pc' = pc /\ pc \in {"idle", "returned"}]_vars

\* The write of the first frame failed with the unseekable error, and the
\* loop then serviced a read of a second frame.
C16_Witness ==
    /\ Len(tun.reads) = 2 /\ tun.serviced = 2 /\ tun.last = "frame"
    /\ tun.pc = "forward_b"
    /\ Len(tun.tap_b) = 1 /\ tun.tap_b[1].res = "unseekable"

(***************************************************************************)
(* C17: between the start of the forwarding call for a frame and the write *)
(* of its result the loop services no other read, no generator tick and no *)
(* shutdown, so that at most one forwarding call is in flight; a shutdown  *)
(* signal that arrives during the forwarding takes effect only after the   *)
(* result of that frame has been written.                                  *)
(***************************************************************************)
Forwarding == tun.pc \in {"forward_a", "forward_b", "forward_vc"}
C17_ForwardingIsNotInterrupted ==
    [][/\ Forwarding =>
             /\ tun'.serviced = tun.serviced /\ tun'.reads = tun.reads
             /\ total'.calls = total.calls
             /\ tun'.last # "shutdown"
             /\ tun'.pc # tun.pc =>
                   /\ pc = "returned"
                   /\ tun.pc # "forward_vc" =>
                         Len(tun'.tap_a) + Len(tun'.tap_b) = Len(tun.reads)
       /\ pc = "running" => total'.calls = total.calls
       /\ (tun'.last = "shutdown" /\ tun.last # "shutdown") =>
             /\ tun.pc = "select" /\ pc \in {"idle", "returned"}
             /\ Len(tun.tap_a) + Len(tun.tap_b) = Len(tun.reads)]_vars

\* The signal arrived while a frame read from tap A was being forwarded;
\* the loop ended on it after the write of that frame on tap B.
C17_Witness ==
    /\ tun.pc = "ended" /\ tun.last = "shutdown"
    /\ tun.during = "forward_a" /\ tun.reads = <<"a">>
    /\ Len(tun.tap_b) = 1 /\ tun.tap_a = <<>>

(***************************************************************************)
(* C18: in file mode `<path>_out.txt` receives exactly one appended hex    *)
(* line per input line that is non-blank, not a comment, valid hex and     *)
(* parseable as an IP packet, in input order, whatever the forwarding      *)
(* outcome; a line that is invalid hex or unparseable is skipped and the   *)
(* lines after it are still processed.                                     *)
(***************************************************************************)
GoodLine(l) == l.kind = "hex" /\ l.bytes.len >= HeaderLen(l.bytes.version)
Indices(n) == [k \in 1..n |-> k]
\* The lines of file i that the reader has gone past.
Upto(i) ==
    IF tun.pc = "done" \/ i < tun.file THEN Len(config.files[i])
    ELSE IF tun.pc = "lines" /\ i = tun.file THEN tun.line - 1 ELSE 0
IngressRule(inject, src_ip) ==
    IF inject = <<"tun_a">> THEN ViaA
    ELSE IF inject = <<"tun_b">> THEN ViaB
    ELSE IF src_ip \in config.tun_ingress.tun_a_prefix THEN ViaA
    ELSE IF src_ip \in config.tun_ingress.tun_b_prefix THEN ViaB
    ELSE IF src_ip \in config.tun_ingress.tun_a_ipv6_prefix THEN ViaA
    ELSE IF src_ip \in config.tun_ingress.tun_b_ipv6_prefix THEN ViaB
    ELSE ViaA
C19_IngressByDirectiveThenPrefix ==
    tun.origin # <<>> =>
        [ingress |-> call.start, destination |-> call.dest0]
            = IngressRule(tun.origin[1].inject, call.pkt0.src_ip)

\* The rule holds for the frames of the packet files.
C19_FileFramesFollowRule ==
    (tun.origin # <<>> /\ tun.origin[1].by = "file") =>
        [ingress |-> call.start, destination |-> call.dest0]
            = IngressRule(tun.origin[1].inject, call.pkt0.src_ip)

(***************************************************************************)
(* C20: select_egress_link is a function of its inputs: two calls with the *)
(* same router, the same 5-tuple, the same candidate links in the same     *)
(* order with the same counter values, and the same routing entry, return  *)
(* the same link; the TTL and the raw bytes of the packet have no          *)
(* influence.                                                              *)
(***************************************************************************)
SameInputs(x, y) ==
    /\ x.router_id = y.router_id
    /\ FiveTuple(x.packet) = FiveTuple(y.packet)
    /\ x.links = y.links /\ x.counters = y.counters /\ x.configs = y.configs
    /\ x.entry = y.entry
C20_SelectIsAFunctionOfItsInputs ==
    (picks.first.done /\ picks.second.done /\ SameInputs(picks.first, picks.second))
        => picks.second.result = picks.first.result

\* Two calls at Rx0y0 toward TunB, whose next hop has no link, chose
\* between the two balanced links by the hash; the packets have the same
\* 5-tuple, TTL 64 and 100 bytes in one call, TTL 1 and 101 bytes in the
\* other, and the counters had grown before the first call.
C20_Witness ==
    /\ picks.first.done /\ picks.second.done
    /\ SameInputs(picks.first, picks.second)
    /\ picks.first.router_id = Rx0y0 /\ picks.first.entry.next_hop = Rx0y0
    /\ picks.first.packet.ttl = 64 /\ picks.second.packet.ttl = 1
    /\ picks.first.packet.raw # picks.second.packet.raw
    /\ picks.first.result.kind = "Some"
    /\ \E k \in DOMAIN picks.first.counters :
          /\ picks.first.counters[k] > 0
          /\ picks.hasher[HashKey(picks.first.packet, 0)]
                # picks.hasher[HashKey(picks.first.packet, picks.first.counters[k])]

(***************************************************************************)
(* C21: simulate_link never holds the lock of the process-wide generator   *)
(* while it sleeps in the delay timer: the draws are over and the lock is  *)
(* released before the sleep starts, so a task that holds the lock is      *)
(* never suspended and another call can take the lock while one sleeps.    *)
(***************************************************************************)
C21_LockNotHeldAcrossSleep ==
    /\ \A t \in DOMAIN tasks : tasks[t].holds => tasks[t].pc = "locked"
    /\ Cardinality(Holders) <= 1

\* One call sleeps in the timer while another one holds the lock.
C21_Witness ==
    \E t, u \in DOMAIN tasks :
        /\ tasks[t].pc = "sleeping" /\ ~tasks[t].holds
        /\ tasks[u].pc = "locked" /\ tasks[u].holds

(***************************************************************************)
(* C22: for a packet that parse returned, every successful decrement_ttl   *)
(* lowers the ttl field and the TTL / Hop Limit byte of raw (offset 8 for  *)
(* IPv4, 7 for IPv6) by exactly 1, so that the field equals the byte after *)
(* any number of calls; a call with ttl = 0 fails and leaves the packet    *)
(* unchanged.                                                              *)
(***************************************************************************)
TtlByte(p) == IF p.src_ip[1] = 4 THEN p.raw[9] ELSE p.raw[8]
C22_FieldAndByteDecrementTogether ==
    /\ [](picks.now.ttl = TtlByte(picks.now))
    /\ [][/\ picks'.calls = picks.calls + 1 =>
                /\ picks.now.ttl > 0
                /\ picks'.now.ttl = picks.now.ttl - 1
                /\ TtlByte(picks'.now) = TtlByte(picks.now) - 1
          /\ (picks'.last = "failed" /\ picks'.before = picks.now) =>
                picks.now.ttl = 0 /\ picks'.now = picks.now]_vars

\* A packet parsed with TTL 3 was decremented three times, and the fourth
\* call failed on TTL 0.
C22_Witness ==
    /\ picks.original.ttl = 3 /\ picks.calls = 3 /\ picks.last = "failed"
    /\ picks.now.ttl = 0 /\ TtlByte(picks.now) = 0 /\ picks.reply.at = EmptyId

(***************************************************************************)
(* C23: after decrement_ttl on an IPv4 packet whose buffer holds the whole *)
(* header, the stored header checksum is right for the new header: the     *)
(* one's-complement sum of all 16-bit words of the header, checksum field  *)
(* included, folds to 0xFFFF, also when the checksum stored before the     *)
(* call was wrong.                                                         *)
(***************************************************************************)
HeaderOf(raw) == SubSeq(raw, 1, (raw[1] % 16) * 4)
WholeHeader(raw) == Len(raw) >= (raw[1] % 16) * 4
Verifies(raw) == Fold(WordSum(HeaderOf(raw), 0, -1)) = 65535
C24_OnlyTtlByteChanges ==
    [][(picks'.calls = picks.calls + 1 /\ picks.now.src_ip[1] = 4) =>
          /\ Len(picks'.now.raw) = Len(picks.now.raw)
          /\ \A i \in 1..Len(picks.now.raw) :
                i # 9 => picks'.now.raw[i] = picks.now.raw[i]]_vars

\* Every byte other than the TTL byte and the two checksum bytes is kept.
C24_OnlyTtlAndChecksumChange ==
    [][(picks'.calls = picks.calls + 1 /\ picks.now.src_ip[1] = 4) =>
          /\ Len(picks'.now.raw) = Len(picks.now.raw)
          /\ \A i \in 1..Len(picks.now.raw) :
                i \notin {9, 11, 12} => picks'.now.raw[i] = picks.now.raw[i]]_vars

(***************************************************************************)
(* C25: for every parsed packet P, IPv4 or IPv6, and every ICMP builder    *)
(* the processor uses on a packet of that family, parse of what the        *)
(* builder returns succeeds and yields src_ip = P.dst_ip and               *)
(* dst_ip = P.src_ip.                                                      *)
(***************************************************************************)
Replied == picks.reply.at # EmptyId
\* The packet the reply was built for, while the reply is the packet.
Trigger == picks.before
C26_ReplyFromRouterAddress ==
    (Replied /\ picks.calls = 0) =>
        /\ picks.now.src_ip = IF Trigger.src_ip[1] = 4
                              THEN generate_addresses(picks.reply.at).ipv4
                              ELSE generate_addresses(picks.reply.at).ipv6
        /\ picks.now.dst_ip = Trigger.src_ip

\* The destination of the reply is the source of the packet that triggered
\* it.
C26_ReplyToTheSender ==
    (Replied /\ picks.calls = 0) => picks.now.dst_ip = Trigger.src_ip

(***************************************************************************)
(* C27: for an IPv6 packet at a router without a routing-table entry the   *)
(* reply of the processor is ICMPv6 Destination Unreachable: type 1,       *)
(* code 0.                                                                 *)
(***************************************************************************)
C27_NoRouteIsIcmpv6TypeOne ==
    (Replied /\ picks.reply.kind = "noroute" /\ picks.original.src_ip[1] = 6) =>
        picks.reply.bytes[41] = 1 /\ picks.reply.bytes[42] = 0

(***************************************************************************)
(* C28: every reply to MtuExceeded carries the MTU of the link in a 4-byte *)
(* rest-of-header after the checksum: IPv4 Fragmentation Needed has an     *)
(* 8-byte ICMP header whose last 2 bytes hold the MTU, the quoted original *)
(* starting at offset 28; ICMPv6 Packet Too Big holds the MTU in its       *)
(* 4-byte rest-of-header, the quoted original starting at offset 48.       *)
(***************************************************************************)
\* The reply quotes the packet that triggered it from offset `at` on.
QuotedAt(at, limit) ==
    LET n == Min(limit, Len(Trigger.raw))
    IN /\ Len(picks.reply.bytes) = at + n
       /\ SubSeq(picks.reply.bytes, at + 1, at + n) = SubSeq(Trigger.raw, 1, n)
C28_MtuInRestOfHeader ==
    (Replied /\ picks.reply.kind = "mtu" /\ picks.calls = 0) =>
        IF Trigger.src_ip[1] = 4
        THEN /\ U16(picks.reply.bytes, 26) = picks.reply.mtu
             /\ QuotedAt(28, 28)
        ELSE /\ U16(picks.reply.bytes, 44) * 65536 + U16(picks.reply.bytes, 46)
                   = picks.reply.mtu
             /\ QuotedAt(48, 1232)

\* What the builders do: the MTU follows the checksum of the IPv4 reply in
\* 2 bytes, with the original quoted from offset 26; the IPv6 reply has no
\* rest-of-header and quotes the original from offset 44.
C28_MtuLayoutOfTheBuilders ==
    (Replied /\ picks.reply.kind = "mtu" /\ picks.calls = 0) =>
        IF Trigger.src_ip[1] = 4
        THEN /\ U16(picks.reply.bytes, 24) = picks.reply.mtu
             /\ QuotedAt(26, 28)
        ELSE QuotedAt(44, 1236)

(***************************************************************************)
(* C29: after any sequence of add_router and add_link calls each RouterId  *)
(* has exactly one graph node and each canonical LinkId exactly one graph  *)
(* edge: a call with an id that is already present is rejected and leaves  *)
(* the fabric unchanged, so router_index and link_index have the sizes of  *)
(* the node set and of the edge set.                                       *)
(***************************************************************************)
NodesOf(id) == {n \in 1..Len(nodes) : nodes[n].id = id}
EdgesWith(id) == {e \in 1..Len(edges) : edges[e].id = id}
C29_OneNodePerIdOneEdgePerLinkId ==
    /\ \A id \in DOMAIN router_index : Cardinality(NodesOf(id)) = 1
    /\ \A id \in DOMAIN link_index : Cardinality(EdgesWith(id)) = 1
    /\ Cardinality(DOMAIN router_index) = Len(nodes)
    /\ Cardinality(DOMAIN link_index) = Len(edges)

\* What add_router and add_link keep: every node and edge has its id in the
\* index, and the index names the newest node or edge of the id.
C29_IndexNamesTheNewest ==
    /\ \A n \in 1..Len(nodes) : nodes[n].id \in DOMAIN router_index
    /\ \A e \in 1..Len(edges) : edges[e].id \in DOMAIN link_index
    /\ \A id \in DOMAIN router_index :
          /\ NodesOf(id) # {}
          /\ \A n \in NodesOf(id) : router_index[id] >= n
    /\ \A id \in DOMAIN link_index :
          /\ EdgesWith(id) # {}
          /\ \A e \in EdgesWith(id) : link_index[id] >= e

(***************************************************************************)
(* C31: when several validation rules are violated, validate returns the   *)
(* error of the earliest violated rule in the order: 1 packet_file and     *)
(* packet_files both set; 2 injection directive without its packet         *)
(* file(s); 3 invalid directive value; 4 number of files different from    *)
(* the number of directives; 5 a packet file that does not exist; 6 empty  *)
(* topology; 7 link-name and link-reference errors; 8 unknown ingress      *)
(* router.  The rules outside this list that validate tests in between (an *)
(* empty packet_files list, a duplicate bidirectional link) can take the   *)
(* place of a later rule of the list, never of an earlier one.             *)
(***************************************************************************)
Violated(k) ==
    CASE k = 1 -> config.packet_file # <<>> /\ config.packet_files # <<>>
      [] k = 2 -> \/ config.packet_inject_tun # <<>> /\ config.packet_file = <<>>
                  \/ config.packet_inject_tuns # <<>> /\ config.packet_files = <<>>
      [] k = 3 -> \/ /\ config.packet_inject_tun # <<>>
                     /\ config.packet_inject_tun[1] \notin {"tun_a", "tun_b"}
                  \/ /\ config.packet_inject_tuns # <<>>
                     /\ \E i \in DOMAIN config.packet_inject_tuns[1] :
                           config.packet_inject_tuns[1][i] \notin {"tun_a", "tun_b"}
      [] k = 4 -> /\ config.packet_files # <<>> /\ config.packet_inject_tuns # <<>>
                  /\ Len(config.packet_files[1]) # Len(config.packet_inject_tuns[1])
      [] k = 5 -> \/ /\ config.packet_file # <<>>
                     /\ config.packet_file[1] \notin config.disk
                  \/ /\ config.packet_files # <<>>
                     /\ \E i \in DOMAIN config.packet_files[1] :
                           config.packet_files[1][i] \notin config.disk
      [] k = 6 -> config.routers = {}
      [] k = 7 -> \E name \in config.links :
                     \/ Len(name) # 2
                     \/ name[1] \notin config.routers
                     \/ name[2] \notin config.routers
      [] k = 8 -> \/ config.tun_a_ingress \notin config.routers
                  \/ config.tun_b_ingress \notin config.routers
ErrorsOf(k) ==
    CASE k = 1 -> {"Both 'packet_file' and 'packet_files' are set"}
      [] k = 2 -> {"'packet_inject_tun' specified without a 'packet_file'",
                   "'packet_inject_tuns' specified without 'packet_files'"}
      [] k = 3 -> {"Invalid packet_inject_tun value", "Invalid packet_inject_tuns value"}
      [] k = 4 -> {"Number of packet files does not match number of injection directions"}
      [] k = 5 -> {"packet_file does not exist", "packet file does not exist"}
      [] k = 6 -> {"Topology must define at least one router"}
      [] k = 7 -> {"Invalid link name", "unknown router"}
      [] k = 8 -> {"Ingress router not found in topology"}
Earliest == IF \E k \in 1..8 : Violated(k)
            THEN CHOOSE k \in 1..8 : Violated(k) /\ \A j \in 1..(k - 1) : ~Violated(j)
            ELSE 0
EmptyFileList ==
    /\ config.packet_files # <<>> /\ config.packet_inject_tuns # <<>>
    /\ config.packet_files[1] = <<>>
SamePair ==
    \E m, n \in config.links : m # n /\ {m[1], m[2]} = {n[1], n[2]}
OtherRulesHold ==
    /\ \A k \in 1..8 : ~Violated(k)
    /\ ~EmptyFileList
    /\ validate(config.tun_a_ingress) /\ validate(config.tun_b_ingress)
C30_DuplicateExactlyForTheSamePair ==
    (picks.result # "none" /\ OtherRulesHold) =>
        /\ picks.result = "Duplicate bidirectional link" <=> SamePair
        /\ ~SamePair => picks.result = "Ok"

\* Rx0y0_Rx0y1 and Rx0y1_Rx0y0, with a third link, were rejected whatever
\* name came first.
C30_Witness ==
    /\ OtherRulesHold /\ picks.result = "Duplicate bidirectional link"
    /\ {<<Rx0y0, Rx0y1>>, <<Rx0y1, Rx0y0>>, <<Rx0y1, Rx0y1>>} = config.links
    /\ picks.order[1] = <<Rx0y1, Rx0y0>> /\ picks.order[2] = <<Rx0y1, Rx0y1>>

(***************************************************************************)
(* C32: in ECMP mode the column consulted is the one of the packet's       *)
(* destination anchor: for a packet heading to TunB in a connected         *)
(* loss-free fabric, every successful hop of process_packet_multi moves it *)
(* to a neighbour on a least-cost path to ingress B, so the remaining cost *)
(* to ingress B strictly decreases at each hop (and the same for TunA and  *)
(* ingress A).                                                             *)
(***************************************************************************)
AnchorOf(dest) == IF dest = "TunA" THEN ingress_a ELSE ingress_b
MultiHop ==
    /\ mode = "multi" /\ routed = "compute_multi_path_routing"
    /\ Connected /\ LossFree
    /\ pc = "running" /\ call'.links = call.links + 1
C32_MultiHopApproachesAnchor ==
    [][MultiHop =>
          ShortestDist(NodeOf(AnchorOf(destination)), NodeOf(ingress'))
              < ShortestDist(NodeOf(AnchorOf(destination)), NodeOf(ingress))]_vars

\* What the hops do: away from the other anchor they approach the other
\* anchor, the one the packet is not heading to.
C32_MultiHopApproachesOtherAnchor ==
    [][(MultiHop /\ ingress # AnchorOf(opposite_destination(destination))) =>
          ShortestDist(NodeOf(AnchorOf(opposite_destination(destination))),
                       NodeOf(ingress'))
              < ShortestDist(NodeOf(AnchorOf(opposite_destination(destination))),
                             NodeOf(ingress))]_vars

(***************************************************************************)
(* C33: select_egress_link returns a link of the given candidates: it      *)
(* keeps the candidates that join the current router and the next_hop of   *)
(* the routing entry for the destination; if there is none it keeps all    *)
(* candidates; if a kept link has load_balance = true it picks among the   *)
(* load-balance links by the hash modulo their number; otherwise it        *)
(* returns the first kept link; with an empty candidate list it yields no  *)
(* link.                                                                   *)
(***************************************************************************)
\* The iteration of process_packet is about to call select_egress_link.
Selecting == SP_Forwarding /\ decrement_ttl(packet).ok
Described(links, h) ==
    LET next_hop == Column(tables[ingress], destination).next_hop
        joining == SelectSeq(links, LAMBDA i :
                      {edges[i].id.a, edges[i].id.b} = {ingress, next_hop})
        kept == IF joining = <<>> THEN links ELSE joining
        balanced == SelectSeq(kept, LAMBDA i : edges[i].cfg.load_balance)
    IN IF links = <<>> THEN [kind |-> "None"]
       ELSE IF balanced # <<>>
            THEN [kind |-> "Some", link |-> balanced[(h % Len(balanced)) + 1]]
            ELSE [kind |-> "Some", link |-> kept[1]]
C33_SelectAsDescribed ==
    Selecting =>
        \A h \in HashValues :
            SP_Egress(h) = Described(incident_links(edges, router_index, ingress), h)

\* The same for the calls with at least one candidate.
C33_SelectAmongCandidates ==
    (Selecting /\ incident_links(edges, router_index, ingress) # <<>>) =>
        \A h \in HashValues :
            /\ SP_Egress(h) = Described(incident_links(edges, router_index, ingress), h)
            /\ SP_Egress(h).kind = "Some"
            /\ \E k \in 1..Len(incident_links(edges, router_index, ingress)) :
                  SP_Egress(h).link = incident_links(edges, router_index, ingress)[k]

(***************************************************************************)
(* C34: in single-path mode on a connected loss-free fabric with the       *)
(* tables of compute_routing, an ICMP error generated at router R for a    *)
(* packet that entered at ingress A is forwarded hop by hop from R towards *)
(* TunA and the call ends with the reply at ingress A (and the same for    *)
(* ingress B); on its way the reply is treated like any packet: its TTL is *)
(* decremented and the received and forwarded counters grow at each hop.   *)
(* This holds for a reply that fits the MTU of the links on its way; a     *)
(* reply that exceeds one triggers a second error and a second flip.       *)
(***************************************************************************)
\* A call of process_packet for a packet that entered at one ingress
\* towards the other tap, in which an ICMP error has been generated.
ReplyCase ==
    /\ mode = "single" /\ routed = "compute_routing" /\ Connected /\ LossFree
    /\ \/ call.start = ingress_a /\ call.dest0 = "TunB"
       \/ call.start = ingress_b /\ call.dest0 = "TunA"
    /\ call.icmps >= 1
C34_ReplyEndsAtTheIngress ==
    (ReplyCase /\ pc = "returned") =>
        /\ ingress = call.start /\ destination = opposite_destination(call.dest0)
        /\ call.last = "arrived"

C34_FittingReplyEndsAtTheIngress ==
    /\ []((ReplyCase /\ pc = "returned" /\ call.icmps = 1) =>
             /\ ingress = call.start
             /\ destination = opposite_destination(call.dest0)
             /\ call.last = "arrived" /\ packet.dst_ip = call.pkt0.src_ip)
    /\ [][(ReplyCase /\ pc = "running" /\ call.icmps = 1 /\ call'.iters = call.iters + 1) =>
             \/ /\ call'.last = "arrived" /\ ingress = call.start /\ packet' = packet
                /\ nodes' = Increment(nodes, ingress, "packets_received")
             \/ /\ call'.last = "forwarded" /\ ingress # call.start
                /\ packet'.ttl = packet.ttl - 1 /\ destination' = destination
                /\ nodes' = Increment(Increment(nodes, ingress, "packets_received"),
                                      ingress, "packets_forwarded")
                /\ ShortestDist(NodeOf(call.start), NodeOf(ingress'))
                       < ShortestDist(NodeOf(call.start), NodeOf(ingress))
             \/ /\ call'.last = "mtu" /\ ingress # call.start
                /\ ~FitsEveryLink(packet)]_vars

\* A Time Exceeded generated at the far end of the line of three routers
\* has been forwarded over two links and the call has ended at ingress A.
C34_Witness ==
    /\ ReplyCase /\ pc = "returned" /\ call.icmps = 1 /\ call.last = "arrived"
    /\ Len(nodes) = 3 /\ call.start = Rx0y0 /\ ingress = Rx0y0 /\ call.links = 3
    /\ packet.ttl = IcmpTtl - 2

(***************************************************************************)
(* C35: the TTL check precedes the arrival check in every iteration of the *)
(* loop: a packet that is at its destination anchor with TTL <= 1 (for     *)
(* example one injected with TTL k + 1 on a path of k links) is not        *)
(* delivered; the anchor generates Time Exceeded, increments its           *)
(* icmp_generated and flips the destination.                               *)
(***************************************************************************)
\* The current router is where the table says the packet has arrived.
AtAnchor ==
    /\ mode = "single" /\ pc = "running"
    /\ ingress \in DOMAIN tables /\ ingress \in DOMAIN router_index
    /\ Column(tables[ingress], destination).next_hop = ingress
C35_TtlCheckPrecedesArrival ==
    [][(AtAnchor /\ packet.ttl <= 1 /\ call'.iters = call.iters + 1) =>
          /\ call'.last = "ttl" /\ pc' = "running" /\ ingress' = ingress
          /\ packet'.protocol = (IF is_ipv6(packet) THEN 58 ELSE 1)
          /\ packet'.raw.icmp[1] = (IF is_ipv6(packet) THEN 3 ELSE 11)
          /\ packet'.dst_ip = packet.src_ip
          /\ Stats(ingress)' = [Stats(ingress) EXCEPT !.packets_received = @ + 1,
                                                      !.icmp_generated = @ + 1]
          /\ destination' = opposite_destination(destination)]_vars

\* A packet injected with TTL 2 on the path of one link has expired at
\* ingress B.
C35_Witness ==
    /\ InTwoRouterLine /\ routed = "compute_routing" /\ mode = "single"
    /\ call.start = Rx0y0 /\ call.dest0 = "TunB" /\ call.pkt0.ttl = 2
    /\ call.links = 1 /\ call.iters = 2 /\ call.last = "ttl"
    /\ ingress = Rx0y1 /\ destination = "TunA" /\ pc = "running"
    /\ Stats(Rx0y1) = [packets_received |-> 1, packets_forwarded |-> 0,
                       packets_lost |-> 0, icmp_generated |-> 1]

(***************************************************************************)
(* C36: for a router R from which the destination anchor is unreachable    *)
(* (isolated, or in another component) compute_routing sets next_hop = R,  *)
(* so process_packet started at R with TTL >= 2 treats R as the arrival    *)
(* point: it returns the packet unchanged, generates no Destination        *)
(* Unreachable and changes no counter other than R.received, by one.       *)
(***************************************************************************)
\* A call of process_packet is about to run its first iteration at a router
\* that has no path to the anchor of the destination.
StartsCutOff ==
    /\ mode = "single" /\ routed = "compute_routing"
    /\ pc = "running" /\ call.iters = 0 /\ packet.ttl >= 2
    /\ ingress \in DOMAIN router_index
    /\ ~Reachable(NodeOf(ingress), NodeOf(AnchorOf(destination)))
C36_CutOffRouterIsArrival ==
    [][StartsCutOff =>
          /\ Column(tables[ingress], destination).next_hop = ingress
          /\ pc' = "returned" /\ call'.last = "arrived" /\ call'.icmps = 0
          /\ packet' = packet /\ ingress' = ingress
          /\ nodes' = [nodes EXCEPT ![NodeOf(ingress)].stats.packets_received = @ + 1]
          /\ edges' = edges]_vars

\* A packet injected at Rx0y0 towards ingress B = Rx0y2, which no link
\* reaches, has come back unchanged.
C36_Witness ==
    /\ mode = "single" /\ routed = "compute_routing" /\ FirstCallReturned
    /\ Len(nodes) = 3 /\ Len(edges) = 1 /\ ingress_b = Rx0y2
    /\ call.start = Rx0y0 /\ call.dest0 = "TunB" /\ call.pkt0.ttl = 64
    /\ ~Reachable(NodeOf(Rx0y0), NodeOf(Rx0y2))
    /\ packet = call.pkt0 /\ call.last = "arrived" /\ call.iters = 1
    /\ Stats(Rx0y0) = [StatsDefault EXCEPT !.packets_received = 1]
    /\ Stats(Rx0y1) = StatsDefault /\ edges[1].counter = 0

(***************************************************************************)
(* C37: a forwarding call changes only router statistics counters, link    *)
(* counters and the packet it owns: the routing tables, the set of routers *)
(* and links, every link configuration and every router address (derived   *)
(* from the router id) are the same before and after any step of           *)
(* process_packet and process_packet_multi.                                *)
(***************************************************************************)
\* The tables have been set up: every further step is the start or an
\* iteration of a forwarding call.
C37_ForwardingKeepsFabricAndTables ==
    [][routed # "none" =>
          /\ tables' = tables /\ mtables' = mtables /\ routed' = routed
          /\ ingress_a' = ingress_a /\ ingress_b' = ingress_b
          /\ router_index' = router_index /\ link_index' = link_index
          /\ Len(nodes') = Len(nodes) /\ Len(edges') = Len(edges)
          /\ \A i \in 1..Len(nodes) : nodes'[i].id = nodes[i].id
          /\ \A i \in 1..Len(edges) :
                /\ edges'[i].id = edges[i].id /\ edges'[i].cfg = edges[i].cfg
                /\ edges'[i].src = edges[i].src /\ edges'[i].dst = edges[i].dst]_vars

\* Two calls have returned on the triangle: counters have changed, and the
\* tables are still the ones compute_routing gives for the fabric.
C37_Witness ==
    /\ pc = "returned" /\ total.calls = 2 /\ mode = "single"
    /\ routed = "compute_routing" /\ Len(edges) = 3
    /\ call.links >= 1 /\ \E i \in 1..Len(edges) : edges[i].counter = 2
    /\ \E i \in 1..Len(nodes) : nodes[i].stats.packets_forwarded = 2
    /\ tables = compute_routing(FabricOf, ingress_a, ingress_b)

(***************************************************************************)
(* C38: each iteration of a forwarding loop at a router R increments       *)
(* R.received exactly once and increments at most one of R.forwarded,      *)
(* R.lost and R.icmp_generated, so after any sequence of forwarding calls  *)
(* every router has forwarded + lost + icmp_generated <= received, and no  *)
(* counter ever decreases.                                                 *)
(***************************************************************************)
Outcomes(s) == s.packets_forwarded + s.packets_lost + s.icmp_generated
C38_OneReceivedAtMostOneOutcome ==
    /\ [](\A i \in 1..Len(nodes) : Outcomes(nodes[i].stats) <= nodes[i].stats.packets_received)
    /\ [][\A i \in 1..Len(nodes) : \A f \in DOMAIN StatsDefault :
              nodes'[i].stats[f] >= nodes[i].stats[f]]_vars
    /\ [][(call'.iters = call.iters + 1 /\ ingress \in DOMAIN router_index) =>
             LET r == NodeOf(ingress)
             IN /\ nodes'[r].stats.packets_received = nodes[r].stats.packets_received + 1
                /\ Outcomes(nodes'[r].stats) - Outcomes(nodes[r].stats) \in {0, 1}
                /\ \A i \in 1..Len(nodes) : i # r => nodes'[i] = nodes[i]]_vars

\* The call on the two-router line with MTU 100 in which a reply exceeds
\* the MTU: Rx0y1 forwarded once; Rx0y0 generated two errors and then saw
\* the arrival, which counts as received only.
C38_Witness ==
    /\ pc = "returned" /\ total.calls = 1 /\ call.iters = 4 /\ call.icmps = 2
    /\ Stats(Rx0y1) = [packets_received |-> 1, packets_forwarded |-> 1,
                       packets_lost |-> 0, icmp_generated |-> 0]
    /\ Stats(Rx0y0) = [packets_received |-> 3, packets_forwarded |-> 0,
                       packets_lost |-> 0, icmp_generated |-> 2]

(***************************************************************************)
(* C39: in single-path mode with the tables of compute_routing on a        *)
(* connected fabric without parallel links, with loss-free links, no MTU   *)
(* violation and sufficient TTL, a packet injected at any router towards   *)
(* TunB visits routers whose total_cost to ingress B strictly decreases,   *)
(* never visits a router twice, and the call ends at ingress B before the  *)
(* 100-hop guard fires (and the same towards TunA).                        *)
(***************************************************************************)
NoParallelLinks ==
    \A i, j \in 1..Len(edges) :
        i # j => {edges[i].src, edges[i].dst} # {edges[j].src, edges[j].dst}
\* A path has fewer links than there are routers, so a TTL above the number
\* of routers is still at least 2 at the last router.
DirectCase ==
    /\ mode = "single" /\ routed = "compute_routing"
    /\ Connected /\ NoParallelLinks /\ LossFree
    /\ pc \in {"running", "returned"} /\ call.start \in DOMAIN router_index
    /\ FitsEveryLink(call.pkt0) /\ call.pkt0.ttl > Len(nodes)
C39_CostDecreasesToTheAnchor ==
    /\ [](DirectCase =>
            /\ call.icmps = 0 /\ destination = call.dest0
            /\ call.last \in {"none", "forwarded", "arrived"}
            /\ call.links < Len(nodes) /\ hop_count <= Len(nodes)
            /\ hop_count < HopLimit
            /\ total.calls = 1 =>
                  \A r \in DOMAIN router_index : Stats(r).packets_received <= 1
            /\ pc = "returned" =>
                  /\ ingress = AnchorOf(call.dest0) /\ call.last = "arrived"
                  /\ packet.ttl = call.pkt0.ttl - call.links)
    /\ [][(DirectCase /\ call'.iters = call.iters + 1 /\ call'.last = "forwarded") =>
             /\ ingress' # ingress
             /\ Column(tables[ingress'], destination).total_cost
                   < Column(tables[ingress], destination).total_cost]_vars

\* On the line of three routers a packet injected at ingress A = Rx0y0 has
\* reached ingress B = Rx0y2 over two links, by way of Rx0y1.
C39_Witness ==
    /\ DirectCase /\ FirstCallReturned /\ Len(edges) = 2
    /\ ingress_b = Rx0y2 /\ call.start = Rx0y0 /\ call.dest0 = "TunB"
    /\ call.links = 2 /\ ingress = Rx0y2 /\ call.pkt0.ttl = 64 /\ packet.ttl = 62
    /\ Stats(Rx0y1).packets_forwarded = 1

(***************************************************************************)
(* C40: run(config) forwards only frames that came from the taps, the      *)
(* packet files or the synthetic generator: for a configuration with at    *)
(* least one router but no packet file, no generator and no usable TUN     *)
(* device, every router counter and every link counter is still zero when  *)
(* run returns.                                                            *)
(***************************************************************************)
RunReturned ==
    /\ tun.pc = "done" /\ Len(nodes) >= 1
    /\ config.packet_file = <<>> /\ config.packet_files = <<>>
    /\ config.virtual_customer = <<>>
    /\ config.real_tun_a.address = "" /\ config.real_tun_b.address = ""
C40_CountersZeroWhenRunReturns ==
    RunReturned =>
        /\ \A i \in 1..Len(nodes) : nodes[i].stats = StatsDefault
        /\ \A i \in 1..Len(edges) : edges[i].counter = 0

\* What run() leaves behind: the router its dummy packet started at has
\* received it.
C40_DummyPacketIsCounted ==
    RunReturned =>
        /\ total.calls = (IF config.enable_multipath THEN 2 ELSE 1)
        /\ Stats(tun.first).packets_received >= 1

(***************************************************************************)
(* C5: in a connected fabric, the total_cost of both columns of every      *)
(* router's table computed by compute_routing is the shortest-path         *)
(* distance from the column's anchor, each link weighing max(1, delay_ms). *)
(***************************************************************************)
C5_TotalCostIsShortestDistance ==
    (routed = "compute_routing" /\ Connected) =>
        \A r \in DOMAIN router_index :
            /\ r \in DOMAIN tables
            /\ tables[r].tun_a.total_cost = ShortestDist(NodeOf(ingress_a), NodeOf(r))
            /\ tables[r].tun_b.total_cost = ShortestDist(NodeOf(ingress_b), NodeOf(r))

\* A connected three-router fabric with a zero-delay link, where some router
\* is two links away from anchor A.
C5_Witness ==
    /\ routed = "compute_routing" /\ Connected /\ Len(nodes) = 3
    /\ \E i \in 1..Len(edges) : edges[i].cfg.delay_ms = 0
    /\ \E r \in DOMAIN tables :
          /\ Between(NodeOf(ingress_a), NodeOf(r)) = {}
          /\ r # ingress_a /\ tables[r].tun_a.total_cost = 2

(***************************************************************************)
(* C6: compute_routing sets next_hop = R at the anchor itself; elsewhere   *)
(* the first neighbour N in edge iteration order with                      *)
(* dist(N) + w(R,N) = dist(R), and R itself only when there is none.       *)
(***************************************************************************)
OnShortest(n, s) ==
    SelectSeq(EdgesOf(edges, n), LAMBDA i :
        /\ Reachable(s, n) /\ Reachable(s, Target(edges, i, n))
        /\ ShortestDist(s, Target(edges, i, n)) + Cost(edges[i]) = ShortestDist(s, n))
NextHopRule(r, anchor, entry) ==
    LET good == OnShortest(NodeOf(r), NodeOf(anchor))
    IN IF r = anchor THEN entry.next_hop = r
       ELSE IF good # <<>>
            THEN /\ entry.next_hop = nodes[Target(edges, Head(good), NodeOf(r))].id
                 /\ entry.next_hop # r
            ELSE entry.next_hop = r
C6_NextHopIsFirstShortestNeighbour ==
    routed = "compute_routing" =>
        \A r \in DOMAIN router_index :
            /\ NextHopRule(r, ingress_a, tables[r].tun_a)
            /\ NextHopRule(r, ingress_b, tables[r].tun_b)

\* A router off the anchor with two different neighbours on shortest paths,
\* and a router with none (it keeps itself as next hop).
C6_Witness ==
    /\ routed = "compute_routing"
    /\ \E r \in DOMAIN router_index :
          LET good == OnShortest(NodeOf(r), NodeOf(ingress_b))
          IN /\ r # ingress_b /\ Len(good) >= 2
             /\ Target(edges, good[1], NodeOf(r)) # Target(edges, good[2], NodeOf(r))
             /\ tables[r].tun_b.next_hop = nodes[Target(edges, good[1], NodeOf(r))].id

(***************************************************************************)
(* C7: the ECMP entries for destination TunA (the tun_a list) are the      *)
(* neighbours that minimise dist_a(N) + w(R,N), each with that minimum as  *)
(* total_cost, and the TunB entries likewise with dist_b; in the triangle  *)
(* with A = Rx0y0 and B = Rx0y2 the TunB entries at Rx0y0 are Rx0y1 and    *)
(* Rx0y2 at cost 10.                                                       *)
(***************************************************************************)
EcmpRule(r, anchor, entries) ==
    /\ HopSet(entries) = BestVia(NodeOf(r), NodeOf(anchor))
    /\ entries # <<>> => CostSet(entries) = {MinOf(ViaCosts(NodeOf(r), NodeOf(anchor)))}
C7_EcmpEntriesByDestination ==
    routed = "compute_multi_path_routing" =>
        /\ \A r \in DOMAIN router_index :
              /\ EcmpRule(r, ingress_a, mtables[r].tun_a)
              /\ EcmpRule(r, ingress_b, mtables[r].tun_b)
        /\ InTriangle =>
              /\ HopSet(mtables[Rx0y0].tun_b) = {Rx0y1, Rx0y2}
              /\ CostSet(mtables[Rx0y0].tun_b) = {10}

(***************************************************************************)
(* C8: the tun_a list of a router holds the equal-cost next hops towards   *)
(* ingress B (for traffic that entered at ingress A); in the triangle with *)
(* A = Rx0y0 and B = Rx0y2 the next hops of tun_a at Rx0y0 are exactly     *)
(* Rx0y1 and Rx0y2.                                                        *)
(***************************************************************************)
C8_TunAListsNextHopsTowardsB ==
    routed = "compute_multi_path_routing" =>
        /\ \A r \in DOMAIN router_index :
              HopSet(mtables[r].tun_a) = BestVia(NodeOf(r), NodeOf(ingress_b))
        /\ InTriangle => HopSet(mtables[Rx0y0].tun_a) = {Rx0y1, Rx0y2}

C8_Witness ==
    /\ routed = "compute_multi_path_routing" /\ InTriangle
    /\ Len(mtables[Rx0y0].tun_a) = 2

====
